---- MODULE Spec2Model ----
(***************************************************************************)
(* Numeric fact extraction and cross-document consistency matching of the  *)
(* document review tool (src/src/utils/documentProcessor.ts).              *)
(*                                                                         *)
(* JavaScript strings are modelled as sequences of one-character strings,  *)
(* so that toLowerCase, includes, match and replace are computed character *)
(* by character as the code computes them.                                 *)
(***************************************************************************)
EXTENDS Integers, Sequences, FiniteSets, TLC

(***************************************************************************)
(* Bounds of the model.                                                    *)
(***************************************************************************)
\* the longest list of documents handed to the matcher
MaxDocs == 3
\* the number of facts held by all documents of one call together
MaxFacts == 4
\* the longest generated text or table cell, in characters
MaxTokenLen == 3
\* uploaded files held at a time
MaxFiles == 2
\* value entries of a rendered record
MaxValues == 4
\* issues counted in a result before another analysis pass is started
MaxIssues == 4

(***************************************************************************)
(* Characters and JavaScript string primitives.                            *)
(***************************************************************************)
LowerLetters == <<"a","b","c","d","e","f","g","h","i","j","k","l","m","n","o","p","q","r","s","t","u","v","w","x","y","z">>
UpperLetters == <<"A","B","C","D","E","F","G","H","I","J","K","L","M","N","O","P","Q","R","S","T","U","V","W","X","Y","Z">>
Digits == {"0","1","2","3","4","5","6","7","8","9"}
Whitespace == {" ", "\t", "\n"}
Range(s) == {s[i] : i \in 1..Len(s)}
LowerSet == Range(LowerLetters)
UpperSet == Range(UpperLetters)
\* \w of a JavaScript regular expression
WordChars == LowerSet \cup UpperSet \cup Digits \cup {"_"}

LetterIndex(alphabet, c) == CHOOSE i \in 1..Len(alphabet) : alphabet[i] = c
CharToLower(c) == IF c \in UpperSet THEN LowerLetters[LetterIndex(UpperLetters, c)] ELSE c
CharToUpper(c) == IF c \in LowerSet THEN UpperLetters[LetterIndex(LowerLetters, c)] ELSE c

\* String.prototype.toLowerCase
ToLowerCase(s) == [i \in 1..Len(s) |-> CharToLower(s[i])]

\* String.prototype.includes
Includes(s, w) == \E i \in 1..(Len(s) - Len(w) + 1) : SubSeq(s, i, i + Len(w) - 1) = w

\* the regular expression /20(2[0-9]|1[0-9])/ matching at position i
YearAt(s, i) ==
    /\ i + 3 <= Len(s)
    /\ s[i] = "2"
    /\ s[i+1] = "0"
    /\ s[i+2] \in {"1", "2"}
    /\ s[i+3] \in Digits

\* s.match(/20(2[0-9]|1[0-9])/): the leftmost match, <<>> standing for null
YearMatch(s) ==
    IF \E i \in 1..Len(s) : YearAt(s, i)
    THEN LET i == CHOOSE k \in 1..Len(s) : YearAt(s, k) /\ \A j \in 1..(k-1) : ~YearAt(s, j)
         IN  SubSeq(s, i, i + 3)
    ELSE <<>>

\* String.prototype.trim
RECURSIVE TrimStart(_)
TrimStart(s) == IF s # <<>> /\ Head(s) \in Whitespace THEN TrimStart(Tail(s)) ELSE s
RECURSIVE TrimEnd(_)
TrimEnd(s) == IF s # <<>> /\ s[Len(s)] \in Whitespace THEN TrimEnd(SubSeq(s, 1, Len(s) - 1)) ELSE s
Trim(s) == TrimEnd(TrimStart(s))

\* s.replace(/[^a-z0-9\s]/g, '')
IsKeyChar(c) == c \in LowerSet \cup Digits \cup Whitespace
StripNonKeyChars(s) == SelectSeq(s, IsKeyChar)

(***************************************************************************)
(* Numbers.  A value is the decimal m * 10^e with m not divisible by 10,   *)
(* so that two values are equal exactly when their records are equal; NaN  *)
(* is a value of its own.  The number held is the double nearest to        *)
(* m * 10^e, moved by ulp steps of the double grid (ulp is 0 but for the   *)
(* products of InexactProducts).  Overflow to Infinity is left out: no     *)
(* input of the model comes near it.                                       *)
(***************************************************************************)
NaN == [kind |-> "nan", m |-> 0, e |-> 0, ulp |-> 0]
RECURSIVE Decimal(_, _)
Decimal(m, e) ==
    IF m = 0 THEN [kind |-> "num", m |-> 0, e |-> 0, ulp |-> 0]
    ELSE IF m % 10 = 0 THEN Decimal(m \div 10, e + 1)
    ELSE [kind |-> "num", m |-> m, e |-> e, ulp |-> 0]

(***************************************************************************)
(* Keyword literals.                                                       *)
(***************************************************************************)
W_revenue == <<"r","e","v","e","n","u","e">>
W_sales == <<"s","a","l","e","s">>
W_income == <<"i","n","c","o","m","e">>
W_profit == <<"p","r","o","f","i","t">>
W_net == <<"n","e","t">>
W_earnings == <<"e","a","r","n","i","n","g","s">>
W_expense == <<"e","x","p","e","n","s","e">>
W_cost == <<"c","o","s","t">>
W_total == <<"t","o","t","a","l">>
W_asset == <<"a","s","s","e","t">>
W_liability == <<"l","i","a","b","i","l","i","t","y">>
W_unknown == <<"u","n","k","n","o","w","n">>
W_any == <<"a","n","y">>

(***************************************************************************)
(* performCrossDocumentValidation: key derivation.                         *)
(***************************************************************************)
\* the if/else cascade that sets metricType from the lowercased context
MetricType(context) ==
    IF Includes(context, W_revenue) \/ Includes(context, W_sales) \/ Includes(context, W_income)
    THEN W_revenue
    ELSE IF Includes(context, W_profit) \/ Includes(context, W_net) \/ Includes(context, W_earnings)
    THEN W_profit
    ELSE IF Includes(context, W_expense) \/ Includes(context, W_cost)
    THEN W_expense
    ELSE IF Includes(context, W_total)
    THEN W_total
    ELSE IF Includes(context, W_asset)
    THEN W_asset
    ELSE IF Includes(context, W_liability)
    THEN W_liability
    ELSE W_unknown

\* the keys array built for one item of numericalData, in push order
KeysOf(item) ==
    LET context == ToLowerCase(item.context)
        year == YearMatch(context)
        metricType == MetricType(context)
        k1 == IF year # <<>> /\ metricType # W_unknown THEN << year \o <<"_">> \o metricType >> ELSE <<>>
        k2 == IF year # <<>> THEN << year \o <<"_">> \o W_any >> ELSE <<>>
        k3 == IF metricType # W_unknown THEN << W_any \o <<"_">> \o metricType >> ELSE <<>>
        k4 == << Trim(StripNonKeyChars(context)) >>
    IN  k1 \o k2 \o k3 \o k4

(***************************************************************************)
(* Inputs of the matcher: fact lists as the host hands them over.          *)
(***************************************************************************)
CtxRevenue2024A == <<"2","0","2","4","_","r","e","v","e","n","u","e",":"," ","2","0","2","4"," ","R","e","v","e","n","u","e",":"," ","1","5","0",",","0","0","0">>
CtxRevenue2024B == <<"2","0","2","4","_","r","e","v","e","n","u","e",":"," ","2","0","2","4"," ","R","e","v","e","n","u","e",":"," ","1","4","5",",","0","0","0">>
CtxRevenueUndated == <<"r","e","v","e","n","u","e",":"," ","R","e","v","e","n","u","e",":"," ","1","5","0",",","0","0","1">>

Fact(value, context, location) == [value |-> value, context |-> context, location |-> location]
FactRevenueA == Fact(Decimal(150000, 0), CtxRevenue2024A, <<"L","i","n","e"," ","1">>)
FactRevenueB == Fact(Decimal(145000, 0), CtxRevenue2024B, <<"L","i","n","e"," ","1">>)
FactRevenueUndated == Fact(Decimal(150001, 0), CtxRevenueUndated, <<"L","i","n","e"," ","2">>)
FactCatalogue == {FactRevenueA, FactRevenueB, FactRevenueUndated}

\* KeysOf, computed once for each fact of the catalogue
KeyTable == [f \in FactCatalogue |-> KeysOf(f)]
ItemKeys(item) == IF item \in FactCatalogue THEN KeyTable[item] ELSE KeysOf(item)
KeySetTable == [f \in FactCatalogue |-> Range(KeysOf(f))]
ItemKeySet(item) == IF item \in FactCatalogue THEN KeySetTable[item] ELSE Range(KeysOf(item))

(***************************************************************************)
(* performCrossDocumentValidation: the per-document index.  A JavaScript   *)
(* Map is a sequence of [key, values] entries in insertion order.          *)
(***************************************************************************)
MapHas(metrics, key) == \E i \in 1..Len(metrics) : metrics[i].key = key
MapGet(metrics, key) == metrics[CHOOSE i \in 1..Len(metrics) : metrics[i].key = key].values

\* the push replaced by an unshift: the newest entry first
MetricsPush_Unshift(metrics, key, entry) ==
    IF MapHas(metrics, key)
    THEN [i \in 1..Len(metrics) |->
            IF metrics[i].key = key
            THEN [metrics[i] EXCEPT !.values = <<entry>> \o @]
            ELSE metrics[i]]
    ELSE Append(metrics, [key |-> key, values |-> <<entry>>])

\* if (!metrics.has(key)) metrics.set(key, []); metrics.get(key).push(entry)
MetricsPush(metrics, key, entry) ==
    IF MapHas(metrics, key)
    THEN [i \in 1..Len(metrics) |->
            IF metrics[i].key = key
            THEN [metrics[i] EXCEPT !.values = Append(@, entry)]
            ELSE metrics[i]]
    ELSE Append(metrics, [key |-> key, values |-> <<entry>>])

\* keys.forEach(key => ...) for one item
RECURSIVE PushUnderKeys(_, _, _)
PushUnderKeys(metrics, keys, entry) ==
    IF keys = <<>> THEN metrics
    ELSE PushUnderKeys(MetricsPush(metrics, Head(keys), entry), Tail(keys), entry)

\* doc.numericalData.forEach(item => ...)
RECURSIVE BuildMetrics(_, _)
BuildMetrics(metrics, numericalData) ==
    IF numericalData = <<>> THEN metrics
    ELSE LET item == Head(numericalData)
         IN  BuildMetrics(
                PushUnderKeys(metrics, ItemKeys(item), [value |-> item.value, location |-> item.location]),
                Tail(numericalData))

\* const documentMetrics = documents.map(doc => ...)
DocumentMetrics(docs) ==
    [i \in 1..Len(docs) |->
        [documentName |-> docs[i].name,
         documentId |-> docs[i].id,
         metrics |-> BuildMetrics(<<>>, docs[i].numericalData)]]

\* allKeys: a Set, iterated in the order of first insertion
RECURSIVE AddKeys(_, _)
AddKeys(allKeys, entries) ==
    IF entries = <<>> THEN allKeys
    ELSE AddKeys(IF Head(entries).key \in Range(allKeys) THEN allKeys
                 ELSE Append(allKeys, Head(entries).key),
                 Tail(entries))
RECURSIVE CollectKeys(_, _)
CollectKeys(allKeys, documentMetrics) ==
    IF documentMetrics = <<>> THEN allKeys
    ELSE CollectKeys(AddKeys(allKeys, Head(documentMetrics).metrics), Tail(documentMetrics))
AllKeys(documentMetrics) == CollectKeys(<<>>, documentMetrics)

(***************************************************************************)
(* performCrossDocumentValidation: comparing the values under one key.     *)
(***************************************************************************)
\* documentMetrics.filter(doc => doc.metrics.has(key))
DocumentsWithKey(documentMetrics, key) ==
    SelectSeq(documentMetrics, LAMBDA doc : MapHas(doc.metrics, key))

\* the allValues array filled by the two nested forEach loops
RECURSIVE AllValues(_, _)
AllValues(documentsWithKey, key) ==
    IF documentsWithKey = <<>> THEN <<>>
    ELSE LET doc == Head(documentsWithKey)
             values == MapGet(doc.metrics, key)
         IN  [i \in 1..Len(values) |->
                [documentName |-> doc.documentName,
                 value |-> values[i].value,
                 location |-> values[i].location]]
             \o AllValues(Tail(documentsWithKey), key)

\* [...new Set(allValues.map(v => v.value))]
UniqueValues(allValues) == {allValues[i].value : i \in 1..Len(allValues)}

\* the test weakened to one document
EnoughDocuments_One(documentsWithKey) == Len(documentsWithKey) >= 1

\* documentsWithKey.length >= 2
EnoughDocuments(documentsWithKey) == Len(documentsWithKey) >= 2

\* the test weakened to any value at all
ValuesDiffer_AtLeastOne(uniqueValues) == Cardinality(uniqueValues) >= 1

\* uniqueValues.length > 1
ValuesDiffer(uniqueValues) == Cardinality(uniqueValues) > 1

\* s.replace('_', ' '): a string pattern replaces the first occurrence only
ReplaceFirstUnderscore(s) ==
    IF \E i \in 1..Len(s) : s[i] = "_"
    THEN LET i == CHOOSE k \in 1..Len(s) : s[k] = "_" /\ \A j \in 1..(k-1) : s[j] # "_"
         IN  [k \in 1..Len(s) |-> IF k = i THEN " " ELSE s[k]]
    ELSE s

\* s.replace(/\b\w/g, l => l.toUpperCase())
UpperWordStarts(s) ==
    [i \in 1..Len(s) |->
        IF s[i] \in WordChars /\ (i = 1 \/ s[i-1] \notin WordChars)
        THEN CharToUpper(s[i]) ELSE s[i]]

\* the title-casing applied whatever the key
FieldName_AlwaysTitle(key) == UpperWordStarts(ReplaceFirstUnderscore(key))

\* the fieldName of a rule-based record
FieldName(key) ==
    IF Includes(key, <<"_">>)
    THEN UpperWordStarts(ReplaceFirstUnderscore(key))
    ELSE IF key = <<>> THEN <<>>
    ELSE <<CharToUpper(key[1])>> \o SubSeq(key, 2, Len(key))

\* the body of allKeys.forEach for one key: zero or one pushed record.
\* id stands for `cross-${key}-${Date.now()}` without the time stamp.
RecordsForKey(documentMetrics, key) ==
    LET documentsWithKey == DocumentsWithKey(documentMetrics, key)
        allValues == AllValues(documentsWithKey, key)
    IN  IF EnoughDocuments(documentsWithKey) /\ ValuesDiffer(UniqueValues(allValues))
        THEN << [id |-> key,
                 fieldName |-> FieldName(key),
                 validationType |-> "cross_reference",
                 isConsistent |-> FALSE,
                 values |-> allValues] >>
        ELSE <<>>

RECURSIVE RecordsForKeys(_, _)
RecordsForKeys(documentMetrics, keys) ==
    IF keys = <<>> THEN <<>>
    ELSE RecordsForKey(documentMetrics, Head(keys)) \o RecordsForKeys(documentMetrics, Tail(keys))

\* the rule-based list `inconsistencies` as it stands before the collaborator call
RuleBasedInconsistencies(docs) ==
    LET documentMetrics == DocumentMetrics(docs)
    IN  RecordsForKeys(documentMetrics, AllKeys(documentMetrics))

(***************************************************************************)
(* performCrossDocumentValidation: combining and de-duplicating.           *)
(***************************************************************************)
\* JSON.stringify(values.map(v => v.value).sort()): two lists give the same
\* text exactly when they hold the same values the same number of times
SortedValues(values) ==
    [v \in {values[i].value : i \in 1..Len(values)} |->
        Cardinality({i \in 1..Len(values) : values[i].value = v})]

SameResult(r, result) ==
    /\ r.fieldName = result.fieldName
    /\ SortedValues(r.values) = SortedValues(result.values)

\* array.findIndex(r => ...)
FindIndex(array, result) ==
    CHOOSE i \in 1..Len(array) :
        SameResult(array[i], result) /\ \A j \in 1..(i-1) : ~SameResult(array[j], result)

\* allResults.filter((result, index, array) => index === array.findIndex(...))
RECURSIVE KeepFirsts(_, _)
KeepFirsts(array, index) ==
    IF index > Len(array) THEN <<>>
    ELSE (IF FindIndex(array, array[index]) = index THEN <<array[index]>> ELSE <<>>)
         \o KeepFirsts(array, index + 1)
UniqueResults(allResults) == KeepFirsts(allResults, 1)

(***************************************************************************)
(* extractNumericalData: finding the candidates of one line or cell.       *)
(* numberRegex is                                                          *)
(*   (?:\$|USD|EUR|GBP)?\s*(?:\()?[\d,]+(?:\.\d{1,2})?(?:\))?              *)
(*   (?:\s*(?:million|billion|thousand|M|B|K))?   with the flags g and i.  *)
(* Every part but [\d,]+ is optional and greedy, and no part can take over *)
(* what [\d,]+ needs, so the match at a position is found without          *)
(* backtracking.                                                           *)
(***************************************************************************)
W_usd == <<"u","s","d">>
W_eur == <<"e","u","r">>
W_gbp == <<"g","b","p">>
W_million == <<"m","i","l","l","i","o","n">>
W_billion == <<"b","i","l","l","i","o","n">>
W_thousand == <<"t","h","o","u","s","a","n","d">>

\* w occurs in s at position i, letter case ignored
WordAt(s, i, w) ==
    /\ i >= 1
    /\ i + Len(w) - 1 <= Len(s)
    /\ ToLowerCase(SubSeq(s, i, i + Len(w) - 1)) = w

\* (?:\$|USD|EUR|GBP)? at position i: the number of characters taken
CurrencyLen(s, i) ==
    IF i <= Len(s) /\ s[i] = "$" THEN 1
    ELSE IF WordAt(s, i, W_usd) \/ WordAt(s, i, W_eur) \/ WordAt(s, i, W_gbp) THEN 3
    ELSE 0

\* \s* from position i: the first position after the white space
RECURSIVE SkipSpaces(_, _)
SkipSpaces(s, i) == IF i <= Len(s) /\ s[i] \in Whitespace THEN SkipSpaces(s, i + 1) ELSE i

\* [\d,]* from position i: the first position after the digits and commas
RECURSIVE SkipDigitGroups(_, _)
SkipDigitGroups(s, i) ==
    IF i <= Len(s) /\ s[i] \in Digits \cup {","} THEN SkipDigitGroups(s, i + 1) ELSE i

\* (?:\.\d{1,2})? at position i: the number of characters taken
DecimalsLen(s, i) ==
    IF i + 1 <= Len(s) /\ s[i] = "." /\ s[i+1] \in Digits
    THEN IF i + 2 <= Len(s) /\ s[i+2] \in Digits THEN 3 ELSE 2
    ELSE 0

\* (?:million|billion|thousand|M|B|K) at position i, alternatives tried in order
ScaleWordLen(s, i) ==
    IF WordAt(s, i, W_million) THEN 7
    ELSE IF WordAt(s, i, W_billion) THEN 7
    ELSE IF WordAt(s, i, W_thousand) THEN 8
    ELSE IF WordAt(s, i, <<"m">>) \/ WordAt(s, i, <<"b">>) \/ WordAt(s, i, <<"k">>) THEN 1
    ELSE 0

\* (?:\s*(?:million|billion|thousand|M|B|K))? at position i: the position after it
AfterScale(s, i) ==
    LET q == SkipSpaces(s, i)
    IN  IF ScaleWordLen(s, q) > 0 THEN q + ScaleWordLen(s, q) ELSE i

\* the match of numberRegex that starts at position i: the position after
\* its last character, or 0 when there is no match at i
MatchEnd(s, i) ==
    LET p1 == i + CurrencyLen(s, i)
        p2 == SkipSpaces(s, p1)
        p3 == IF p2 <= Len(s) /\ s[p2] = "(" THEN p2 + 1 ELSE p2
        p4 == SkipDigitGroups(s, p3)
        p5 == p4 + DecimalsLen(s, p4)
        p6 == IF p5 <= Len(s) /\ s[p5] = ")" THEN p5 + 1 ELSE p5
    IN  IF p4 = p3 THEN 0 ELSE AfterScale(s, p6)

\* s.match(numberRegex) || []: the leftmost matches, none overlapping
RECURSIVE MatchesFrom(_, _)
MatchesFrom(s, i) ==
    IF i > Len(s) THEN <<>>
    ELSE IF MatchEnd(s, i) = 0 THEN MatchesFrom(s, i + 1)
    ELSE <<SubSeq(s, i, MatchEnd(s, i) - 1)>> \o MatchesFrom(s, MatchEnd(s, i))
NumberMatches(s) == MatchesFrom(s, 1)

(***************************************************************************)
(* extractNumericalData: the value of one candidate.                       *)
(***************************************************************************)
\* match.replace(/[$,\s]/g, '')
IsKept(c) == c \notin ({"$", ","} \cup Whitespace)
StripMarks(match) == SelectSeq(match, IsKept)

\* cleanNumber.includes('(') && cleanNumber.includes(')')
HasParentheses(cleanNumber) == Includes(cleanNumber, <<"(">>) /\ Includes(cleanNumber, <<")">>)

\* cleanNumber.replace(/[()]/g, '')
IsNotParenthesis(c) == c \notin {"(", ")"}
StripParentheses(cleanNumber) == SelectSeq(cleanNumber, IsNotParenthesis)

\* /word|L$/i.test(match)
HasScale(match, word, letter) ==
    \/ Includes(ToLowerCase(match), word)
    \/ (match # <<>> /\ CharToLower(match[Len(match)]) = letter)

\* cleanNumber.replace(/word|L$/gi, '')
RECURSIVE RemoveScaleFrom(_, _, _, _)
RemoveScaleFrom(s, i, word, letter) ==
    IF i > Len(s) THEN <<>>
    ELSE IF WordAt(s, i, word) THEN RemoveScaleFrom(s, i + Len(word), word, letter)
    ELSE IF i = Len(s) /\ CharToLower(s[i]) = letter THEN <<>>
    ELSE <<s[i]>> \o RemoveScaleFrom(s, i + 1, word, letter)
RemoveScale(s, word, letter) == RemoveScaleFrom(s, 1, word, letter)

\* the if/else cascade of the scale multipliers: the power of ten and
\* what is left of cleanNumber
ScaleOf(match, cleanNumber) ==
    IF HasScale(match, W_million, "m")
    THEN [exponent |-> 6, cleanNumber |-> RemoveScale(cleanNumber, W_million, "m")]
    ELSE IF HasScale(match, W_billion, "b")
    THEN [exponent |-> 9, cleanNumber |-> RemoveScale(cleanNumber, W_billion, "b")]
    ELSE IF HasScale(match, W_thousand, "k")
    THEN [exponent |-> 3, cleanNumber |-> RemoveScale(cleanNumber, W_thousand, "k")]
    ELSE [exponent |-> 0, cleanNumber |-> cleanNumber]

DigitValue(c) == CHOOSE d \in 0..9 : <<"0","1","2","3","4","5","6","7","8","9">>[d + 1] = c
RECURSIVE DigitsToNat(_)
DigitsToNat(ds) ==
    IF ds = <<>> THEN 0 ELSE 10 * DigitsToNat(SubSeq(ds, 1, Len(ds) - 1)) + DigitValue(ds[Len(ds)])

RECURSIVE LeadingDigits(_)
LeadingDigits(s) ==
    IF s # <<>> /\ Head(s) \in Digits THEN <<Head(s)>> \o LeadingDigits(Tail(s)) ELSE <<>>

\* parseFloat: the longest prefix that is a decimal literal (digits, then
\* optionally a point and digits); NaN when there is none.  No sign and no
\* exponent can follow from numberRegex.
ParseFloat(s) ==
    LET t == TrimStart(s)
        whole == LeadingDigits(t)
        rest == SubSeq(t, Len(whole) + 1, Len(t))
        fraction == IF rest # <<>> /\ Head(rest) = "." THEN LeadingDigits(Tail(rest)) ELSE <<>>
    IN  IF whole = <<>> /\ fraction = <<>> THEN NaN
        ELSE Decimal(DigitsToNat(whole \o fraction), 0 - Len(fraction))

(***************************************************************************)
(* The products parseFloat(cleanNumber) * multiplier that a double cannot  *)
(* hold exactly.  parseFloat gives the double nearest to the decimal, the  *)
(* multiplication rounds once more, and the result can lie one step of     *)
(* the double grid (ulp) beside the double nearest to the exact product:   *)
(* parseFloat("2.01") * 1000 is 2009.9999999999998.  The table lists, by   *)
(* IEEE 754 round-to-nearest-even, every such product of a number below 10 *)
(* with at most two decimals, as <<digits, decimals>> (2.01 is <<201, 2>>);*)
(* integers and the numbers written with the digits 0 and 1 only, up to    *)
(* 999.99, have exact products.                                            *)
(***************************************************************************)
InexactProducts ==
  { [exponent |-> 3, ulp |-> 0 - 1,
     numbers |->
        { <<201, 2>>, <<203, 2>>, <<402, 2>>, <<406, 2>>, <<803, 2>>,
          <<804, 2>>, <<811, 2>>, <<812, 2>>, <<819, 2>> }],
    [exponent |-> 3, ulp |-> 1,
     numbers |->
        { <<403, 2>>, <<407, 2>>, <<805, 2>>, <<806, 2>>, <<813, 2>>,
          <<814, 2>> }],
    [exponent |-> 6, ulp |-> 0 - 1,
     numbers |->
        { <<201, 2>>, <<203, 2>>, <<205, 2>>, <<207, 2>>, <<209, 2>>,
          <<402, 2>>, <<406, 2>>, <<41, 1>>, <<414, 2>>, <<418, 2>>,
          <<803, 2>>, <<804, 2>>, <<811, 2>>, <<812, 2>>, <<819, 2>>,
          <<82, 1>>, <<828, 2>>, <<829, 2>>, <<836, 2>>, <<837, 2>> }],
    [exponent |-> 6, ulp |-> 1,
     numbers |->
        { <<403, 2>>, <<407, 2>>, <<411, 2>>, <<415, 2>>, <<419, 2>>,
          <<805, 2>>, <<806, 2>>, <<813, 2>>, <<814, 2>>, <<821, 2>>,
          <<822, 2>>, <<83, 1>>, <<831, 2>>, <<838, 2>> }],
    [exponent |-> 9, ulp |-> 0 - 1,
     numbers |->
        { <<201, 2>>, <<203, 2>>, <<205, 2>>, <<207, 2>>, <<209, 2>>,
          <<211, 2>>, <<402, 2>>, <<406, 2>>, <<41, 1>>, <<414, 2>>,
          <<418, 2>>, <<422, 2>>, <<427, 2>>, <<803, 2>>, <<804, 2>>,
          <<811, 2>>, <<812, 2>>, <<819, 2>>, <<82, 1>>, <<828, 2>>,
          <<829, 2>>, <<836, 2>>, <<837, 2>>, <<844, 2>>, <<845, 2>>,
          <<853, 2>>, <<854, 2>> }],
    [exponent |-> 9, ulp |-> 1,
     numbers |->
        { <<107, 2>>, <<214, 2>>, <<403, 2>>, <<407, 2>>, <<411, 2>>,
          <<415, 2>>, <<419, 2>>, <<423, 2>>, <<428, 2>>, <<805, 2>>,
          <<806, 2>>, <<813, 2>>, <<814, 2>>, <<821, 2>>, <<822, 2>>,
          <<83, 1>>, <<831, 2>>, <<838, 2>>, <<839, 2>>, <<846, 2>>,
          <<847, 2>>, <<855, 2>>, <<856, 2>> }] }

\* the steps between the double nearest to number * 10^exponent and the
\* double the multiplication gives
ProductUlp(number, exponent) ==
    IF \E row \in InexactProducts :
          row.exponent = exponent /\ <<number.m, 0 - number.e>> \in row.numbers
    THEN (CHOOSE row \in InexactProducts :
              row.exponent = exponent /\ <<number.m, 0 - number.e>> \in row.numbers).ulp
    ELSE 0

\* parseFloat(cleanNumber) * multiplier * (isNegative ? -1 : 1)
Times(number, exponent, isNegative) ==
    IF number = NaN THEN NaN
    ELSE [Decimal(IF isNegative THEN 0 - number.m ELSE number.m, number.e + exponent)
            EXCEPT !.ulp = IF isNegative THEN 0 - ProductUlp(number, exponent)
                           ELSE ProductUlp(number, exponent)]

\* the value computed for one match
ValueOf(match) ==
    LET stripped == StripMarks(match)
        isNegative == HasParentheses(stripped)
        cleanNumber == IF isNegative THEN StripParentheses(stripped) ELSE stripped
        scale == ScaleOf(match, cleanNumber)
    IN  Times(ParseFloat(scale.cleanNumber), scale.exponent, isNegative)

\* the guard weakened to the NaN test only
IsKeptValue_NaNOnly(value) == value # NaN

\* !isNaN(value) && value !== 0
IsKeptValue(value) == value # NaN /\ value.m # 0

(***************************************************************************)
(* extractNumericalData: classification, context and location.             *)
(***************************************************************************)
W_expenditure == <<"e","x","p","e","n","d","i","t","u","r","e">>
W_sum == <<"s","u","m">>
W_figure == <<"f","i","g","u","r","e">>
W_number == <<"n","u","m","b","e","r">>
W_table_value == <<"t","a","b","l","e","_","v","a","l","u","e">>

\* year ? `${year}_name` : 'name'
TypeName(year, name) == IF year # <<>> THEN year \o <<"_">> \o name ELSE name

\* contextType of a text line, from the lowercased line
TextContextType(contextWords) ==
    LET year == YearMatch(contextWords)
    IN  IF Includes(contextWords, W_revenue) \/ Includes(contextWords, W_sales) \/ Includes(contextWords, W_income)
        THEN TypeName(year, W_revenue)
        ELSE IF Includes(contextWords, W_expense) \/ Includes(contextWords, W_cost) \/ Includes(contextWords, W_expenditure)
        THEN TypeName(year, W_expense)
        ELSE IF Includes(contextWords, W_profit) \/ Includes(contextWords, W_net) \/ Includes(contextWords, W_earnings)
        THEN TypeName(year, W_profit)
        ELSE IF Includes(contextWords, W_total) \/ Includes(contextWords, W_sum)
        THEN TypeName(year, W_total)
        ELSE IF Includes(contextWords, W_asset)
        THEN TypeName(year, W_asset)
        ELSE IF Includes(contextWords, W_liability)
        THEN TypeName(year, W_liability)
        ELSE IF year # <<>> THEN year \o <<"_">> \o W_figure
        ELSE W_number

\* contextType of a table cell, from the lowercased `${header} ${rowLabel}`
TableContextType(combinedContext) ==
    LET year == YearMatch(combinedContext)
    IN  IF Includes(combinedContext, W_revenue) \/ Includes(combinedContext, W_sales) \/ Includes(combinedContext, W_income)
        THEN TypeName(year, W_revenue)
        ELSE IF Includes(combinedContext, W_expense) \/ Includes(combinedContext, W_cost)
        THEN TypeName(year, W_expense)
        ELSE IF Includes(combinedContext, W_profit) \/ Includes(combinedContext, W_net) \/ Includes(combinedContext, W_earnings)
        THEN TypeName(year, W_profit)
        ELSE IF Includes(combinedContext, W_total) \/ Includes(combinedContext, W_sum)
        THEN TypeName(year, W_total)
        ELSE IF Includes(combinedContext, W_asset)
        THEN TypeName(year, W_asset)
        ELSE IF Includes(combinedContext, W_liability)
        THEN TypeName(year, W_liability)
        ELSE IF year # <<>> THEN year \o <<"_">> \o W_figure
        ELSE W_table_value

\* the decimal text of a natural number, as a template literal prints it
RECURSIVE NatToChars(_)
NatToChars(n) ==
    IF n < 10 THEN << <<"0","1","2","3","4","5","6","7","8","9">>[n + 1] >>
    ELSE NatToChars(n \div 10) \o << <<"0","1","2","3","4","5","6","7","8","9">>[(n % 10) + 1] >>

\* the facts pushed for the matches of one line or cell, in match order
RECURSIVE FactsOfMatches(_, _, _)
FactsOfMatches(matches, context, location) ==
    IF matches = <<>> THEN <<>>
    ELSE (IF IsKeptValue(ValueOf(Head(matches)))
          THEN << [value |-> ValueOf(Head(matches)), context |-> context, location |-> location] >>
          ELSE <<>>)
         \o FactsOfMatches(Tail(matches), context, location)

(***************************************************************************)
(* extractNumericalData: the text lines.                                   *)
(***************************************************************************)
\* text.split('\n')
RECURSIVE SplitLines(_)
SplitLines(s) ==
    IF \E i \in 1..Len(s) : s[i] = "\n"
    THEN LET i == CHOOSE k \in 1..Len(s) : s[k] = "\n" /\ \A j \in 1..(k-1) : s[j] # "\n"
         IN  <<SubSeq(s, 1, i - 1)>> \o SplitLines(SubSeq(s, i + 1, Len(s)))
    ELSE <<s>>

\* the body of lines.forEach for the line at lineIndex (0-based)
LineFacts(line, lineIndex) ==
    FactsOfMatches(NumberMatches(line),
                   TextContextType(ToLowerCase(line)) \o <<":", " ">> \o Trim(line),
                   <<"L","i","n","e"," ">> \o NatToChars(lineIndex + 1))

RECURSIVE LinesFacts(_, _)
LinesFacts(lines, lineIndex) ==
    IF lineIndex >= Len(lines) THEN <<>>
    ELSE LineFacts(lines[lineIndex + 1], lineIndex) \o LinesFacts(lines, lineIndex + 1)

TextFacts(txt) == LinesFacts(SplitLines(txt), 0)

(***************************************************************************)
(* extractNumericalData: the tables.  A cell is a string, or NullCell for  *)
(* an empty spreadsheet cell (null or undefined).                          *)
(***************************************************************************)
NullCell == <<"null">>

\* what reading a property of null or undefined throws
TypeError == <<"TypeError">>

\* cell.toString() || '' without the optional chaining
CellValue_Unguarded(cell) == IF cell = NullCell THEN TypeError ELSE cell

\* cell?.toString() || ''
CellValue(cell) == IF cell = NullCell THEN <<>> ELSE cell

\* x || fallback, for a string that may be missing, null or empty
OrElse(x, fallback) == IF x = NullCell \/ x = <<>> THEN fallback ELSE x

\* table.headers[cellIndex] || `Column ${cellIndex + 1}` (cellIndex 0-based)
HeaderOf(table, cellIndex) ==
    OrElse(IF cellIndex + 1 <= Len(table.headers) THEN table.headers[cellIndex + 1] ELSE NullCell,
           <<"C","o","l","u","m","n"," ">> \o NatToChars(cellIndex + 1))

\* the label read from the first row of the table, whatever the row
RowLabelOf_FirstRow(table, rowIndex) ==
    OrElse(IF table.rows[1] # <<>> THEN table.rows[1][1] ELSE NullCell,
           <<"R","o","w"," ">> \o NatToChars(rowIndex + 1))

\* table.rows[rowIndex][0] || `Row ${rowIndex + 1}` (rowIndex 0-based)
RowLabelOf(table, rowIndex) ==
    OrElse(IF table.rows[rowIndex + 1] # <<>> THEN table.rows[rowIndex + 1][1] ELSE NullCell,
           <<"R","o","w"," ">> \o NatToChars(rowIndex + 1))

\* the cell taken as one candidate instead of its matches
CellFacts_WholeCell(table, tableIndex, rowIndex, cellIndex) ==
    LET cellValue == CellValue(table.rows[rowIndex + 1][cellIndex + 1])
        header == HeaderOf(table, cellIndex)
        rowLabel == RowLabelOf(table, rowIndex)
    IN  IF cellValue = <<>> \/ Trim(cellValue) = <<>> THEN <<>>
        ELSE FactsOfMatches(
                <<cellValue>>,
                TableContextType(ToLowerCase(header \o <<" ">> \o rowLabel))
                    \o <<":", " ">> \o rowLabel \o <<" ", "-", " ">> \o header
                    \o <<" ", "(">> \o cellValue \o <<")">>,
                <<"T","a","b","l","e"," ">> \o NatToChars(tableIndex + 1)
                    \o <<",", " ">> \o rowLabel \o <<",", " ">> \o header)

\* the body of row.forEach for one cell
CellFacts(table, tableIndex, rowIndex, cellIndex) ==
    LET cellValue == CellValue(table.rows[rowIndex + 1][cellIndex + 1])
        header == HeaderOf(table, cellIndex)
        rowLabel == RowLabelOf(table, rowIndex)
    IN  IF cellValue = <<>> \/ Trim(cellValue) = <<>> THEN <<>>
        ELSE FactsOfMatches(
                NumberMatches(cellValue),
                TableContextType(ToLowerCase(header \o <<" ">> \o rowLabel))
                    \o <<":", " ">> \o rowLabel \o <<" ", "-", " ">> \o header
                    \o <<" ", "(">> \o cellValue \o <<")">>,
                <<"T","a","b","l","e"," ">> \o NatToChars(tableIndex + 1)
                    \o <<",", " ">> \o rowLabel \o <<",", " ">> \o header)

RECURSIVE RowFacts(_, _, _, _)
RowFacts(table, tableIndex, rowIndex, cellIndex) ==
    IF cellIndex >= Len(table.rows[rowIndex + 1]) THEN <<>>
    ELSE CellFacts(table, tableIndex, rowIndex, cellIndex)
         \o RowFacts(table, tableIndex, rowIndex, cellIndex + 1)

RECURSIVE TableFacts(_, _, _)
TableFacts(table, tableIndex, rowIndex) ==
    IF rowIndex >= Len(table.rows) THEN <<>>
    ELSE RowFacts(table, tableIndex, rowIndex, 0) \o TableFacts(table, tableIndex, rowIndex + 1)

RECURSIVE TablesFacts(_, _)
TablesFacts(tbls, tableIndex) ==
    IF tableIndex >= Len(tbls) THEN <<>>
    ELSE TableFacts(tbls[tableIndex + 1], tableIndex, 0) \o TablesFacts(tbls, tableIndex + 1)

\* a statement of the table loops throws: the only property read of a value
\* that can be null or undefined is cell.toString (headers, rows and each
\* row are arrays, and an index past the end of an array reads undefined)
Raises(tbls) ==
    \E t \in 1..Len(tbls) : \E r \in 1..Len(tbls[t].rows) :
        \E c \in 1..Len(tbls[t].rows[r]) : CellValue(tbls[t].rows[r][c]) = TypeError

\* the two loops in the other order
ExtractNumericalData_TablesFirst(txt, tbls) == TablesFacts(tbls, 0) \o TextFacts(txt)

\* extractNumericalData(text, tables): the text facts, then the table facts
ExtractNumericalData(txt, tbls) == TextFacts(txt) \o TablesFacts(tbls, 0)

(***************************************************************************)
(* Documents built from the catalogue.                                     *)
(***************************************************************************)
DocNames == <<"report.pdf", "budget.xlsx", "summary.docx", "notes.pdf", "annex.pdf">>
DocIds == <<"id1", "id2", "id3", "id4", "id5">>

\* n documents holding the facts of flat, document i the facts after cut[i-1] up to cut[i]
SplitDocuments(flat, cut, n) ==
    [i \in 1..n |->
        [id |-> DocIds[i],
         name |-> DocNames[i],
         numericalData |-> SubSeq(flat, cut[i-1] + 1, cut[i])]]

\* the cut points of k facts into n documents
Cuts(n, k) ==
    { c \in [0..n -> 0..k] : c[0] = 0 /\ c[n] = k /\ \A i \in 1..n : c[i-1] <= c[i] }

(***************************************************************************)
(* Answers of the semantic-analysis collaborator (blink.ai.generateObject).*)
(***************************************************************************)
\* the collaborator's records carry no id
NoId == <<"undefined">>
AIRevenueRecord ==
    [id |-> NoId,
     fieldName |-> <<"2","0","2","4"," ","R","e","v","e","n","u","e">>,
     validationType |-> "cross_reference",
     isConsistent |-> FALSE,
     values |-> << [documentName |-> "budget.xlsx", value |-> Decimal(145000, 0), location |-> <<"L","i","n","e"," ","1">>],
                   [documentName |-> "report.pdf", value |-> Decimal(150000, 0), location |-> <<"L","i","n","e"," ","1">>] >>]
AIProfitRecord ==
    [id |-> NoId,
     fieldName |-> <<"2","0","2","4"," ","N","e","t"," ","P","r","o","f","i","t">>,
     validationType |-> "consistency_check",
     isConsistent |-> FALSE,
     values |-> << [documentName |-> "report.pdf", value |-> Decimal(50000, 0), location |-> <<"L","i","n","e"," ","9">>],
                   [documentName |-> "budget.xlsx", value |-> Decimal(52000, 0), location |-> <<"L","i","n","e"," ","9">>] >>]
AIAnswers == { <<>>, <<AIRevenueRecord, AIProfitRecord, AIProfitRecord>> }

(***************************************************************************)
(* State of one call of performCrossDocumentValidation, of one call of     *)
(* extractNumericalData, of the App component (its useState cells and the  *)
(* positions of its asynchronous handlers) and of one rendering of a       *)
(* record's values by AnalysisResults.                                     *)
(***************************************************************************)
VARIABLES
    documents,         \* the argument of the call
    pc,                \* "start", "awaitAI" (suspended at the await), "done"
    inconsistencies,   \* the rule-based list held across the await
    aiOutcome,         \* "none", "resolved", "rejected", "malformed"
    aiResults,         \* object.crossValidations || []
    outcome,           \* "pending", "returned", "rejected": how the promise settled
    result,            \* the list the promise resolved with
    text,              \* extractNumericalData: the text argument
    tables,            \* extractNumericalData: the tables argument
    numericalData,     \* extractNumericalData: the list it builds and returns
    xpc,               \* "idle" (no call), "called", "returned", "threw"
    appState,          \* 'upload', 'processing', 'results'
    uploadedFiles,     \* the list of [id, status, file]
    processedDocuments,\* the list of [id, name, numericalData]
    analysisResult,    \* NoResult (null) or the published result
    isProcessing,      \* the isProcessing cell
    abortController,   \* NoController (null) or the controller of the run
    fpc,               \* processFile: "idle", the step it is suspended in, "ended"
    run,               \* processFile: its argument and its local constants
    hpc,               \* handleStartProcessing: "idle", "awaiting"
    closure,           \* handleStartProcessing: what the invocation captured
    apc,               \* performCrossDocumentAnalysis: "idle", "awaiting"
    validation,        \* AnalysisResults: the record rendered (its values)
    outliers,          \* AnalysisResults: isOutlier of each entry rendered
    rpc                \* AnalysisResults: "idle", "rendering", "rendered"

matcherVars == <<documents, pc, inconsistencies, aiOutcome, aiResults, outcome, result>>
extractorVars == <<text, tables, numericalData, xpc>>
appVars == <<appState, uploadedFiles, processedDocuments, analysisResult, isProcessing,
             abortController, fpc, run, hpc, closure, apc>>
renderVars == <<validation, outliers, rpc>>
vars == <<matcherVars, extractorVars, appVars, renderVars>>

\* no call of extractNumericalData is under way
ExtractorIdle ==
    /\ text = <<>>
    /\ tables = <<>>
    /\ numericalData = <<>>
    /\ xpc = "idle"

\* no call of performCrossDocumentValidation is under way
MatcherIdle ==
    /\ documents = <<>>
    /\ pc = "idle"
    /\ inconsistencies = <<>>
    /\ aiOutcome = "none"
    /\ aiResults = <<>>
    /\ outcome = "pending"
    /\ result = <<>>

\* analysisResult is null
NoResult == [documentId |-> "null"]

\* abortController is null
NoController == "null"

\* no file has been handed to processFile yet
NoRun == [fileUpload |-> [id |-> "null"], aborted |-> FALSE]

\* no invocation of handleStartProcessing is under way
NoClosure == [isProcessing |-> FALSE, filesToProcess |-> <<>>, index |-> 0]

\* the App component after its first render: the useState initial values
AppIdle ==
    /\ appState = "upload"
    /\ uploadedFiles = <<>>
    /\ processedDocuments = <<>>
    /\ analysisResult = NoResult
    /\ isProcessing = FALSE
    /\ abortController = NoController
    /\ fpc = "idle"
    /\ run = NoRun
    /\ hpc = "idle"
    /\ closure = NoClosure
    /\ apc = "idle"

\* no record is being rendered
RenderIdle ==
    /\ validation = [values |-> <<>>]
    /\ outliers = <<>>
    /\ rpc = "idle"

Init ==
    /\ \E n \in 0..MaxDocs, k \in 0..MaxFacts :
        \E flat \in [1..k -> FactCatalogue], cut \in Cuts(n, k) :
            documents = SplitDocuments(flat, cut, n)
    /\ pc = "start"
    /\ inconsistencies = <<>>
    /\ aiOutcome = "none"
    /\ aiResults = <<>>
    /\ outcome = "pending"
    /\ result = <<>>
    /\ ExtractorIdle
    /\ AppIdle
    /\ RenderIdle

\* the test weakened to the empty list only
TooFewDocuments_EmptyOnly(docs) == Len(docs) < 1

\* documents.length < 2
TooFewDocuments(docs) == Len(docs) < 2

\* a catch block that rethrows
CatchError_Rethrow == [outcome |-> "rejected", result |-> <<>>]

\* what the catch block makes of an error: console.error, return []
CatchError == [outcome |-> "returned", result |-> <<>>]

\* the early return for fewer than two documents
ReturnEmpty ==
    /\ pc = "start"
    /\ TooFewDocuments(documents)
    /\ pc' = "done"
    /\ outcome' = "returned"
    /\ result' = <<>>
    /\ UNCHANGED <<documents, inconsistencies, aiOutcome, aiResults>>
    /\ UNCHANGED <<extractorVars, appVars, renderVars>>

\* the synchronous rule-based part, up to the await of generateObject
RuleBasedPass ==
    /\ pc = "start"
    /\ ~TooFewDocuments(documents)
    /\ inconsistencies' = RuleBasedInconsistencies(documents)
    /\ pc' = "awaitAI"
    /\ UNCHANGED <<documents, aiOutcome, aiResults, outcome, result>>
    /\ UNCHANGED <<extractorVars, appVars, renderVars>>

\* generateObject resolves: combine, de-duplicate, return uniqueResults
AIResolve ==
    /\ pc = "awaitAI"
    /\ \E answer \in AIAnswers :
        /\ aiResults' = answer
        /\ result' = UniqueResults(inconsistencies \o answer)
    /\ aiOutcome' = "resolved"
    /\ outcome' = "returned"
    /\ pc' = "done"
    /\ UNCHANGED <<documents, inconsistencies>>
    /\ UNCHANGED <<extractorVars, appVars, renderVars>>

\* generateObject rejects: the catch block returns []
AIReject ==
    /\ pc = "awaitAI"
    /\ aiOutcome' = "rejected"
    /\ outcome' = CatchError.outcome
    /\ result' = CatchError.result
    /\ pc' = "done"
    /\ UNCHANGED <<documents, inconsistencies, aiResults>>
    /\ UNCHANGED <<extractorVars, appVars, renderVars>>

\* generateObject resolves with a record that has no values array:
\* r.values.map throws inside the filter and the catch block returns []
AIMalformed ==
    /\ pc = "awaitAI"
    /\ aiOutcome' = "malformed"
    /\ outcome' = CatchError.outcome
    /\ result' = CatchError.result
    /\ pc' = "done"
    /\ UNCHANGED <<documents, inconsistencies, aiResults>>
    /\ UNCHANGED <<extractorVars, appVars, renderVars>>

Next == ReturnEmpty \/ RuleBasedPass \/ AIResolve \/ AIReject \/ AIMalformed

Spec == Init /\ [][Next]_vars

(***************************************************************************)
(* One call of extractNumericalData.  The function is synchronous: the     *)
(* call is one step.                                                       *)
(***************************************************************************)
\* the characters the candidate grammar tells apart
TokenAlphabet == {"$", "0", "1", ",", ".", "(", ")", " ", "m"}

\* a table holding one data cell
TokenTable(token) ==
    [headers |-> << <<"I","t","e","m">>, <<"2","0","2","4">> >>,
     rows |-> << << <<"C","o","s","t">>, token >> >>]

\* "2024 Revenue: $0.00" / "Total cost (1,234) and USD 5" / "" / "Net 2.5 million"
ReportText ==
    <<"2","0","2","4"," ","R","e","v","e","n","u","e",":"," ","$","0",".","0","0","\n">>
    \o <<"T","o","t","a","l"," ","c","o","s","t"," ","(","1",",","2","3","4",")"," ","a","n","d"," ","U","S","D"," ","5","\n">>
    \o <<"\n">>
    \o <<"N","e","t"," ","2",".","5"," ","m","i","l","l","i","o","n">>

\* a sheet with a zero cell, an empty cell, a null cell, a cell without
\* digits, a row longer than the header row and rows without a label
BudgetTable ==
    [headers |-> << <<"I","t","e","m">>, <<"2","0","2","4">>, <<"2","0","2","3">> >>,
     rows |-> << << <<"R","e","v","e","n","u","e">>, <<"1","5","0",",","0","0","0">>, <<"$","0",".","0","0">> >>,
                 << NullCell, <<>>, <<"n","/","a">>, <<"7","K">> >>,
                 << <<>>, <<"(","0",")">>, <<" ">> >> >>]

\* "$1,234.56" / "(1,234)" / "2.5 million" / "3K"
LiteralsText ==
    <<"$","1",",","2","3","4",".","5","6","\n">>
    \o <<"(","1",",","2","3","4",")","\n">>
    \o <<"2",".","5"," ","m","i","l","l","i","o","n","\n">>
    \o <<"3","K">>

\* one-line texts with a scale word of each kind
ScaleTexts ==
    { <<"6","M">>, <<"4","B">>, <<"7"," ","k">>,
      <<"2"," ","b","i","l","l","i","o","n">>,
      <<"1",".","5"," ","T","h","o","u","s","a","n","d">>,
      <<"(","1","2",")"," ","K">>,
      <<"2",".","0","1","K">> }

\* one-line texts with a currency marker of each kind
CurrencyTexts ==
    { <<"$","1",",","0","0","0">>,
      <<"U","S","D"," ","1",",","0","0","0">>,
      <<"E","U","R"," ","5">>,
      <<"g","b","p","7",".","5">> }

\* lines with the keywords of one group, of several groups and of none:
\*   "Sales 1"
\*   "Expense 2"
\*   "Earnings 3"
\*   "Sum 4"
\*   "Assets 5"
\*   "Liability 6"
\*   "Other 7"
\*   "Net income 8"
\*   "Cost of sales 2021: 9"
\*   "2023 plan 10"
\*   "Total liability and assets 11"
ClassifiedText ==
    <<"S","a","l","e","s"," ","1","\n">>
    \o <<"E","x","p","e","n","s","e"," ","2","\n">>
    \o <<"E","a","r","n","i","n","g","s"," ","3","\n">>
    \o <<"S","u","m"," ","4","\n">>
    \o <<"A","s","s","e","t","s"," ","5","\n">>
    \o <<"L","i","a","b","i","l","i","t","y"," ","6","\n">>
    \o <<"O","t","h","e","r"," ","7","\n">>
    \o <<"N","e","t"," ","i","n","c","o","m","e"," ","8","\n">>
    \o <<"C","o","s","t"," ","o","f"," ","s","a","l","e","s"," ","2","0","2","1",":"," ","9","\n">>
    \o <<"2","0","2","3"," ","p","l","a","n"," ","1","0","\n">>
    \o <<"T","o","t","a","l"," ","l","i","a","b","i","l","i","t","y"," ","a","n","d"," ","a","s","s","e","t","s"," ","1","1">>

\* a sheet whose row labels and headers hold the keywords
ClassifiedTable ==
    [headers |-> << <<"I","t","e","m">>, <<"2","0","2","4">>, <<"C","o","s","t">> >>,
     rows |-> << << <<"N","e","t"," ","s","a","l","e","s">>, <<"1","2">>, <<"1","3">> >>,
                 << <<"T","o","t","a","l"," ","a","s","s","e","t","s">>, <<"1","4">>, <<"1","5">> >>,
                 << <<"L","i","a","b","i","l","i","t","y">>, <<"1","6">>, <<"1","7">> >>,
                 << <<"O","t","h","e","r">>, <<"1","8">>, <<"1","9">> >>,
                 << <<"P","r","o","f","i","t">>, <<"2","0">>, <<"2","1">> >> >>]

\* header "2024", row label "Revenue", cell "150,000"
RevenueTable ==
    [headers |-> << <<"I","t","e","m">>, <<"2","0","2","4">> >>,
     rows |-> << << <<"R","e","v","e","n","u","e">>, <<"1","5","0",",","0","0","0">> >> >>]

\* a cell that holds a keyword and a year, in a row below a row of another label
KeywordCellTable ==
    [headers |-> << <<"I","t","e","m">>, <<"A","m","o","u","n","t">> >>,
     rows |-> << << <<"S","a","l","e","s">>, <<"3">> >>,
                 << <<"O","t","h","e","r">>, <<"R","e","v","e","n","u","e"," ","2","0","2","3",":"," ","5">> >> >>]

\* the word the text classification alone knows
ExpenditureText == <<"C","a","p","i","t","a","l"," ","e","x","p","e","n","d","i","t","u","r","e"," ","5">>
ExpenditureTable ==
    [headers |-> << <<"I","t","e","m">>, <<"A","m","o","u","n","t">> >>,
     rows |-> << << <<"C","a","p","i","t","a","l"," ","e","x","p","e","n","d","i","t","u","r","e">>, <<"5">> >> >>]

\* numbers followed by an ordinary word that begins with m, b or k
OrdinaryWordTexts ==
    { <<"5"," ","m","o","n","t","h","s">>,
      <<"3"," ","b","o","o","k","s">>,
      <<"1","0"," ","k","m">> }

InputCatalogue ==
    { [text |-> LiteralsText, tables |-> <<>>],
      [text |-> ClassifiedText, tables |-> <<ClassifiedTable>>],
      [text |-> ExpenditureText, tables |-> <<>>],
      [text |-> <<>>, tables |-> <<ExpenditureTable>>],
      [text |-> <<>>, tables |-> <<RevenueTable>>],
      [text |-> <<>>, tables |-> <<KeywordCellTable>>],
      [text |-> ExpenditureText, tables |-> <<KeywordCellTable, RevenueTable>>] }
    \cup { [text |-> t, tables |-> <<>>] : t \in ScaleTexts \cup CurrencyTexts \cup OrdinaryWordTexts }
    \cup
    { [text |-> ReportText, tables |-> <<>>],
      [text |-> <<>>, tables |-> <<BudgetTable>>],
      [text |-> ReportText, tables |-> <<BudgetTable>>],
      [text |-> ReportText, tables |-> <<BudgetTable, TokenTable(<<"0">>)>>] }

InitExtract ==
    /\ MatcherIdle
    /\ AppIdle
    /\ RenderIdle
    /\ \/ \E n \in 0..MaxTokenLen : \E token \in [1..n -> TokenAlphabet] :
            \/ text = token /\ tables = <<>>
            \/ text = <<>> /\ tables = <<TokenTable(token)>>
            \/ text = token /\ tables = <<TokenTable(token)>>
       \/ \E input \in InputCatalogue : text = input.text /\ tables = input.tables
    /\ numericalData = <<>>
    /\ xpc = "called"

\* the whole body of extractNumericalData, up to return numericalData, or
\* up to the statement that throws
Extract ==
    /\ xpc = "called"
    /\ IF Raises(tables)
       THEN /\ xpc' = "threw"
            /\ UNCHANGED numericalData
       ELSE /\ xpc' = "returned"
            /\ numericalData' = ExtractNumericalData(text, tables)
    /\ UNCHANGED <<text, tables>>
    /\ UNCHANGED <<matcherVars, appVars, renderVars>>

NextExtract == Extract

SpecExtract == InitExtract /\ [][NextExtract]_vars

(***************************************************************************)
(* Extraction followed by validation: each file's text and tables go       *)
(* through extractNumericalData (processDocument), the list it returns is  *)
(* stored with the file's id and name (processFile), and the stored        *)
(* documents are handed to performCrossDocumentValidation.                 *)
(***************************************************************************)
RevenueFileA == [text |-> <<"2","0","2","4"," ","R","e","v","e","n","u","e",":"," ","1","5","0",",","0","0","0">>, tables |-> <<>>]
RevenueFileB == [text |-> <<"2","0","2","4"," ","R","e","v","e","n","u","e",":"," ","1","4","5",",","0","0","0">>, tables |-> <<>>]
NetCostFile == [text |-> <<"N","e","t"," ","c","o","s","t"," ","5">>, tables |-> <<>>]
RangeFile == [text |-> <<"R","e","v","e","n","u","e"," ","5"," ","a","n","d"," ","7">>, tables |-> <<>>]
TotalFile == [text |-> <<"2","0","2","3"," ","T","o","t","a","l",":"," ","1","0",",","0","0","0">>, tables |-> <<>>]
RevenueSheet ==
    [text |-> <<>>,
     tables |-> << [headers |-> << <<"I","t","e","m">>, <<"2","0","2","4">> >>,
                    rows |-> << << <<"R","e","v","e","n","u","e">>, <<"1","5","0",",","0","0","0">> >> >>] >>]

FileCatalogue == {RevenueFileA, RevenueFileB, NetCostFile, RangeFile, TotalFile, RevenueSheet}

\* processDocument is called on the next file
Upload ==
    /\ pc = "idle"
    /\ xpc = "idle"
    /\ Len(documents) < MaxDocs
    /\ \E file \in FileCatalogue :
        /\ text' = file.text
        /\ tables' = file.tables
    /\ xpc' = "called"
    /\ UNCHANGED numericalData
    /\ UNCHANGED <<matcherVars, appVars, renderVars>>

\* setProcessedDocuments(prev => [...prev, {id, name, processedDoc, numericalData}])
AddDocument ==
    /\ pc = "idle"
    /\ xpc = "returned"
    /\ documents' = Append(documents,
                           [id |-> DocIds[Len(documents) + 1],
                            name |-> DocNames[Len(documents) + 1],
                            numericalData |-> numericalData])
    /\ text' = <<>>
    /\ tables' = <<>>
    /\ numericalData' = <<>>
    /\ xpc' = "idle"
    /\ UNCHANGED <<pc, inconsistencies, aiOutcome, aiResults, outcome, result>>
    /\ UNCHANGED <<appVars, renderVars>>

\* performCrossDocumentValidation is called on the stored documents
StartValidation ==
    /\ pc = "idle"
    /\ xpc = "idle"
    /\ pc' = "start"
    /\ UNCHANGED <<documents, inconsistencies, aiOutcome, aiResults, outcome, result>>
    /\ UNCHANGED <<extractorVars, appVars, renderVars>>

InitPipeline == MatcherIdle /\ ExtractorIdle /\ AppIdle /\ RenderIdle

NextPipeline ==
    \/ Upload
    \/ Extract
    \/ AddDocument
    \/ StartValidation
    \/ ReturnEmpty
    \/ RuleBasedPass
    \/ AIResolve
    \/ AIReject
    \/ AIMalformed

SpecPipeline == InitPipeline /\ [][NextPipeline]_vars

(***************************************************************************)
(* The App component.  A handler runs to its next await in one step; what  *)
(* it holds across an await is in run (processFile) and closure            *)
(* (handleStartProcessing).  The step list, the current step and the file  *)
(* name shown while processing are display state and are left out.         *)
(***************************************************************************)
\* the files a user may drop
AppFiles == {RevenueFileA, RevenueFileB}

\* what performProofreadingAnalysis resolves with: the severities of its issues
ProofreadingAnswers == { <<>>, <<"high", "low">> }

\* what performNumericalValidation resolves with: isValid of its validations
NumericalAnswers == { <<>>, <<TRUE, FALSE>> }

\* the tests of array.filter(test).length
IsHigh(severity) == severity = "high"
IsInvalid(isValid) == ~isValid
IsInconsistent(v) == ~v.isConsistent

\* prev.map(f => f.id === id ? {...f, status} : f)
SetStatus(files, id, status) ==
    [i \in 1..Len(files) |-> IF files[i].id = id THEN [files[i] EXCEPT !.status = status] ELSE files[i]]

\* an id no uploaded file and no stored document carries
IsFreshId(k) ==
    /\ \A i \in 1..Len(uploadedFiles) : uploadedFiles[i].id # DocIds[k]
    /\ \A i \in 1..Len(processedDocuments) : processedDocuments[i].id # DocIds[k]

\* no handler is suspended at an await
Quiescent == fpc = "idle" /\ hpc = "idle" /\ apc = "idle"

\* the dropzone and the file list are rendered
UploadView == appState = "upload"

\* handleFilesSelected for one file dropped on the dropzone
HandleFilesSelected ==
    /\ Quiescent
    /\ UploadView
    /\ Len(uploadedFiles) < MaxFiles
    /\ \E k \in 1..Len(DocIds), file \in AppFiles :
        /\ IsFreshId(k)
        /\ \A j \in 1..(k - 1) : ~IsFreshId(j)
        /\ uploadedFiles' = Append(uploadedFiles,
                                   [id |-> DocIds[k], name |-> DocNames[k], status |-> "uploading", file |-> file])
    /\ UNCHANGED <<appState, processedDocuments, analysisResult, isProcessing, abortController,
                   fpc, run, hpc, closure, apc>>
    /\ UNCHANGED <<matcherVars, extractorVars, renderVars>>

\* handleRemoveFile, from the X button of a listed file
HandleRemoveFile ==
    /\ Quiescent
    /\ UploadView
    /\ \E i \in 1..Len(uploadedFiles) :
        uploadedFiles' = SelectSeq(uploadedFiles, LAMBDA f : f.id # uploadedFiles[i].id)
    /\ UNCHANGED <<appState, processedDocuments, analysisResult, isProcessing, abortController,
                   fpc, run, hpc, closure, apc>>
    /\ UNCHANGED <<matcherVars, extractorVars, renderVars>>

\* processFile from its call to its first await: the state resets and the
\* new controller (whose signal cannot be aborted yet at line 72)
ProcessFileBegin(fileUpload) ==
    /\ appState' = "processing"
    /\ isProcessing' = TRUE
    /\ abortController' = "controller"
    /\ run' = [fileUpload |-> fileUpload, aborted |-> FALSE]
    /\ fpc' = "upload"

\* the finally block
Finally ==
    /\ isProcessing' = FALSE
    /\ abortController' = NoController
    /\ fpc' = "ended"

\* the catch block for 'Processing aborted by user'
CatchAbort ==
    /\ uploadedFiles' = SetStatus(uploadedFiles, run.fileUpload.id, "cancelled")
    /\ appState' = "upload"
    /\ Finally

\* the catch block for any other error
CatchFailure ==
    /\ uploadedFiles' = SetStatus(uploadedFiles, run.fileUpload.id, "error")
    /\ UNCHANGED appState
    /\ Finally

\* step 1 ends; the abort check before processDocument
StepUpload ==
    /\ fpc = "upload"
    /\ IF run.aborted
       THEN CatchAbort /\ UNCHANGED run
       ELSE /\ fpc' = "extract"
            /\ UNCHANGED <<appState, uploadedFiles, isProcessing, abortController, run>>
    /\ UNCHANGED <<processedDocuments, analysisResult, hpc, closure, apc>>
    /\ UNCHANGED <<matcherVars, extractorVars, renderVars>>

\* processDocument rejects (a PDF without text, an unreadable file)
ProcessDocumentRejects ==
    /\ fpc = "extract"
    /\ CatchFailure
    /\ UNCHANGED <<processedDocuments, analysisResult, run, hpc, closure, apc>>
    /\ UNCHANGED <<matcherVars, extractorVars, renderVars>>

\* processDocument resolves, step 2 ends; the abort check before proofreading
StepExtract ==
    /\ fpc = "extract"
    /\ IF run.aborted
       THEN CatchAbort /\ UNCHANGED run
       ELSE /\ run' = [fileUpload |-> run.fileUpload, aborted |-> run.aborted,
                       processedDoc |->
                           [numericalData |-> ExtractNumericalData(run.fileUpload.file.text,
                                                                    run.fileUpload.file.tables)]]
            /\ fpc' = "proofread"
            /\ UNCHANGED <<appState, uploadedFiles, isProcessing, abortController>>
    /\ UNCHANGED <<processedDocuments, analysisResult, hpc, closure, apc>>
    /\ UNCHANGED <<matcherVars, extractorVars, renderVars>>

\* performProofreadingAnalysis resolves, step 3 ends; the abort check
\* before the numerical validation
StepProofread ==
    /\ fpc = "proofread"
    /\ IF run.aborted
       THEN CatchAbort /\ UNCHANGED run
       ELSE /\ \E proofreadingIssues \in ProofreadingAnswers :
                run' = [fileUpload |-> run.fileUpload, aborted |-> run.aborted,
                        processedDoc |-> run.processedDoc,
                        proofreadingIssues |-> proofreadingIssues]
            /\ fpc' = "validate"
            /\ UNCHANGED <<appState, uploadedFiles, isProcessing, abortController>>
    /\ UNCHANGED <<processedDocuments, analysisResult, hpc, closure, apc>>
    /\ UNCHANGED <<matcherVars, extractorVars, renderVars>>

\* the entry for the file, appended before the abort check of step 5
StoreProcessedDocument(prev) ==
    Append(prev, [id |-> run.fileUpload.id,
                  name |-> run.fileUpload.name,
                  numericalData |-> run.processedDoc.numericalData])

\* performNumericalValidation resolves, step 4 ends, the document is stored;
\* the abort check of step 5
StepValidate ==
    /\ fpc = "validate"
    /\ processedDocuments' = StoreProcessedDocument(processedDocuments)
    /\ IF run.aborted
       THEN CatchAbort /\ UNCHANGED run
       ELSE /\ \E numericalValidations \in NumericalAnswers :
                run' = [fileUpload |-> run.fileUpload, aborted |-> run.aborted,
                        processedDoc |-> run.processedDoc,
                        proofreadingIssues |-> run.proofreadingIssues,
                        numericalValidations |-> numericalValidations]
            /\ fpc' = "complete"
            /\ UNCHANGED <<appState, uploadedFiles, isProcessing, abortController>>
    /\ UNCHANGED <<analysisResult, hpc, closure, apc>>
    /\ UNCHANGED <<matcherVars, extractorVars, renderVars>>

\* the result object built at the end of processFile
FileResult ==
    [documentId |-> run.fileUpload.id,
     proofreadingIssues |-> run.proofreadingIssues,
     numericalValidations |-> run.numericalValidations,
     crossDocumentValidations |-> <<>>,
     summary |-> [totalIssues |-> Len(run.proofreadingIssues) + Len(SelectSeq(run.numericalValidations, IsInvalid)),
                  criticalIssues |-> Len(SelectSeq(run.proofreadingIssues, IsHigh)),
                  numericalErrors |-> Len(SelectSeq(run.numericalValidations, IsInvalid)),
                  proofreadingErrors |-> Len(run.proofreadingIssues),
                  crossDocumentErrors |-> 0]]

\* step 5 ends: the result is published, the file is completed, finally
StepComplete ==
    /\ fpc = "complete"
    /\ analysisResult' = FileResult
    /\ appState' = "results"
    /\ uploadedFiles' = SetStatus(uploadedFiles, run.fileUpload.id, "completed")
    /\ Finally
    /\ UNCHANGED <<processedDocuments, run, hpc, closure, apc>>
    /\ UNCHANGED <<matcherVars, extractorVars, renderVars>>

\* the Cancel button of the processing view, rendered while canAbort
HandleAbortProcessing ==
    /\ appState = "processing"
    /\ isProcessing
    /\ IF abortController # NoController
       THEN run' = [run EXCEPT !.aborted = TRUE]
       ELSE UNCHANGED run
    /\ UNCHANGED <<appState, uploadedFiles, processedDocuments, analysisResult, isProcessing,
                   abortController, fpc, hpc, closure, apc>>
    /\ UNCHANGED <<matcherVars, extractorVars, renderVars>>

\* the New Analysis button, rendered in the results view
HandleStartOver ==
    /\ Quiescent
    /\ appState = "results"
    /\ run' = IF abortController # NoController THEN [run EXCEPT !.aborted = TRUE] ELSE run
    /\ appState' = "upload"
    /\ uploadedFiles' = <<>>
    /\ analysisResult' = NoResult
    /\ processedDocuments' = <<>>
    /\ isProcessing' = FALSE
    /\ abortController' = NoController
    /\ UNCHANGED <<fpc, hpc, closure, apc>>
    /\ UNCHANGED <<matcherVars, extractorVars, renderVars>>

\* uploadedFiles.filter(f => f.status !== 'completed' && f.status !== 'processing')
FilesToProcess(files) == SelectSeq(files, LAMBDA f : f.status \notin {"completed", "processing"})

\* the Start Document Analysis button is rendered and enabled
StartButtonEnabled ==
    /\ UploadView
    /\ \E i \in 1..Len(uploadedFiles) : uploadedFiles[i].status \notin {"completed", "processing", "cancelled"}
    /\ ~isProcessing

\* handleStartProcessing up to the first await of the first processFile;
\* isProcessing is the constant of the render the handler belongs to
HandleStartProcessing ==
    /\ Quiescent
    /\ StartButtonEnabled
    /\ Len(processedDocuments) < MaxDocs
    /\ LET filesToProcess == FilesToProcess(uploadedFiles)
       IN  IF filesToProcess = <<>>
           THEN UNCHANGED <<appState, isProcessing, abortController, run, fpc, hpc, closure>>
           ELSE /\ closure' = [isProcessing |-> isProcessing, filesToProcess |-> filesToProcess, index |-> 1]
                /\ hpc' = "awaiting"
                /\ ProcessFileBegin(filesToProcess[1])
    /\ UNCHANGED <<uploadedFiles, processedDocuments, analysisResult, apc>>
    /\ UNCHANGED <<matcherVars, extractorVars, renderVars>>

\* if (!isProcessing) break, on the captured constant
LoopEnds(captured) == ~captured.isProcessing

\* processFile has settled: the loop of handleStartProcessing goes on
HandleStartProcessingResume ==
    /\ hpc = "awaiting"
    /\ fpc = "ended"
    /\ IF LoopEnds(closure) \/ closure.index = Len(closure.filesToProcess)
       THEN /\ hpc' = "idle"
            /\ fpc' = "idle"
            /\ run' = NoRun
            /\ closure' = NoClosure
            /\ UNCHANGED <<appState, isProcessing, abortController>>
       ELSE /\ closure' = [closure EXCEPT !.index = @ + 1]
            /\ ProcessFileBegin(closure.filesToProcess[closure.index + 1])
            /\ UNCHANGED hpc
    /\ UNCHANGED <<uploadedFiles, processedDocuments, analysisResult, apc>>
    /\ UNCHANGED <<matcherVars, extractorVars, renderVars>>

InitApp == MatcherIdle /\ ExtractorIdle /\ AppIdle /\ RenderIdle

NextApp ==
    \/ HandleFilesSelected
    \/ HandleRemoveFile
    \/ HandleStartProcessing
    \/ StepUpload
    \/ ProcessDocumentRejects
    \/ StepExtract
    \/ StepProofread
    \/ StepValidate
    \/ StepComplete
    \/ HandleStartProcessingResume
    \/ HandleAbortProcessing
    \/ HandleStartOver

SpecApp == InitApp /\ [][NextApp]_vars

(***************************************************************************)
(* The handlers of App called one after the other, each call when the      *)
(* previous one has settled: processFile on any listed file and            *)
(* performCrossDocumentAnalysis, whose await of                            *)
(* performCrossDocumentValidation is the matcher above.  The render        *)
(* conditions of the buttons are not part of this specification.           *)
(***************************************************************************)
\* the files selected before the first call
InitHandlers ==
    /\ MatcherIdle
    /\ ExtractorIdle
    /\ RenderIdle
    /\ \E n \in 1..MaxFiles : \E files \in [1..n -> AppFiles] :
        uploadedFiles = [k \in 1..n |->
                            [id |-> DocIds[k], name |-> DocNames[k], status |-> "uploading", file |-> files[k]]]
    /\ appState = "upload"
    /\ processedDocuments = <<>>
    /\ analysisResult = NoResult
    /\ isProcessing = FALSE
    /\ abortController = NoController
    /\ fpc = "idle"
    /\ run = NoRun
    /\ hpc = "idle"
    /\ closure = NoClosure
    /\ apc = "idle"

\* processFile(fileUpload) is called on a listed file
ProcessFileCall ==
    /\ Quiescent
    /\ Len(processedDocuments) < MaxDocs
    /\ \E i \in 1..Len(uploadedFiles) : ProcessFileBegin(uploadedFiles[i])
    /\ UNCHANGED <<uploadedFiles, processedDocuments, analysisResult, hpc, closure, apc>>
    /\ UNCHANGED <<matcherVars, extractorVars, renderVars>>

\* the promise of processFile has settled
ProcessFileSettled ==
    /\ fpc = "ended"
    /\ hpc = "idle"
    /\ fpc' = "idle"
    /\ run' = NoRun
    /\ UNCHANGED <<appState, uploadedFiles, processedDocuments, analysisResult, isProcessing,
                   abortController, hpc, closure, apc>>
    /\ UNCHANGED <<matcherVars, extractorVars, renderVars>>

\* performCrossDocumentAnalysis up to its await of performCrossDocumentValidation
PerformCrossDocumentAnalysis ==
    /\ Quiescent
    /\ Len(processedDocuments) >= 2
    /\ analysisResult = NoResult \/ analysisResult.summary.totalIssues <= MaxIssues
    /\ appState' = "processing"
    /\ apc' = "awaiting"
    /\ documents' = processedDocuments
    /\ pc' = "start"
    /\ inconsistencies' = <<>>
    /\ aiOutcome' = "none"
    /\ aiResults' = <<>>
    /\ outcome' = "pending"
    /\ result' = <<>>
    /\ UNCHANGED <<uploadedFiles, processedDocuments, analysisResult, isProcessing, abortController,
                   fpc, run, hpc, closure>>
    /\ UNCHANGED <<extractorVars, renderVars>>

\* crossValidations.map(...): the records as the result holds them
CrossDocumentValidations(crossValidations, docs) ==
    [index \in 1..Len(crossValidations) |->
        [id |-> index - 1,
         documentIds |-> [j \in 1..Len(docs) |-> docs[j].id],
         validationType |-> crossValidations[index].validationType,
         fieldName |-> crossValidations[index].fieldName,
         values |-> crossValidations[index].values,
         isConsistent |-> crossValidations[index].isConsistent]]

\* a result that keeps the records it already held
UpdatedResult_Appending(previous, crossDocumentValidations) ==
    [previous EXCEPT
        !.crossDocumentValidations = @ \o crossDocumentValidations,
        !.summary.totalIssues = @ + Len(SelectSeq(crossDocumentValidations, IsInconsistent)),
        !.summary.crossDocumentErrors = Len(SelectSeq(crossDocumentValidations, IsInconsistent))]

\* updatedResult: the spread of analysisResult with the new list and summary
UpdatedResult(previous, crossDocumentValidations) ==
    [previous EXCEPT
        !.crossDocumentValidations = crossDocumentValidations,
        !.summary.totalIssues = @ + Len(SelectSeq(crossDocumentValidations, IsInconsistent)),
        !.summary.crossDocumentErrors = Len(SelectSeq(crossDocumentValidations, IsInconsistent))]

\* performCrossDocumentValidation has settled: the result is updated and
\* shown, or the catch block runs
PerformCrossDocumentAnalysisResume ==
    /\ apc = "awaiting"
    /\ pc = "done"
    /\ IF outcome = "rejected"
       THEN UNCHANGED <<analysisResult, appState>>
       ELSE /\ analysisResult' =
                 IF analysisResult # NoResult
                 THEN UpdatedResult(analysisResult, CrossDocumentValidations(result, processedDocuments))
                 ELSE analysisResult
            /\ appState' = "results"
    /\ apc' = "idle"
    /\ documents' = <<>>
    /\ pc' = "idle"
    /\ inconsistencies' = <<>>
    /\ aiOutcome' = "none"
    /\ aiResults' = <<>>
    /\ outcome' = "pending"
    /\ result' = <<>>
    /\ UNCHANGED <<uploadedFiles, processedDocuments, isProcessing, abortController, fpc, run, hpc, closure>>
    /\ UNCHANGED <<extractorVars, renderVars>>

NextHandlers ==
    \/ ProcessFileCall
    \/ StepUpload
    \/ ProcessDocumentRejects
    \/ StepExtract
    \/ StepProofread
    \/ StepValidate
    \/ StepComplete
    \/ ProcessFileSettled
    \/ PerformCrossDocumentAnalysis
    \/ RuleBasedPass
    \/ AIResolve
    \/ AIReject
    \/ AIMalformed
    \/ PerformCrossDocumentAnalysisResume

SpecHandlers == InitHandlers /\ [][NextHandlers]_vars

(***************************************************************************)
(* AnalysisResults: the rendering of the values of one inconsistency       *)
(* record.  Array.prototype.sort is stable and calls the comparator on a   *)
(* copy, so the counts the comparator takes are those of the array before  *)
(* the sort.                                                               *)
(***************************************************************************)
\* the values a rendered entry may show
RenderValues == {Decimal(95, 0), Decimal(100, 0), Decimal(105, 0)}

\* allValues.filter(v => v === a).length
Occurrences(array, a) == Len(SelectSeq(array, LAMBDA v : v = a))

\* allValues.sort((a, b) => count(a) - count(b)): ascending by count, equal
\* counts in their order of appearance
RECURSIVE SortedFrom(_, _)
SortedFrom(array, count) ==
    IF count > Len(array) THEN <<>>
    ELSE SelectSeq(array, LAMBDA v : Occurrences(array, v) = count) \o SortedFrom(array, count + 1)

SortByCount(array) == SortedFrom(array, 1)

\* array.pop(): the last element, and the array it leaves
Pop(array) == [value |-> array[Len(array)], rest |-> SubSeq(array, 1, Len(array) - 1)]

\* isOutlier of the entry at valueIndex (0-based); the count is taken on
\* allValues after pop() has removed one occurrence of mostCommonValue
IsOutlier(vals, valueIndex) ==
    LET popped == Pop(SortByCount([i \in 1..Len(vals) |-> vals[i].value]))
        mostCommonValue == popped.value
    IN  /\ vals[valueIndex + 1].value # mostCommonValue
        /\ Occurrences(popped.rest, mostCommonValue) > 1

\* the record handed to the component
InitRender ==
    /\ MatcherIdle
    /\ ExtractorIdle
    /\ AppIdle
    /\ \E n \in 0..MaxValues : \E shown \in [1..n -> RenderValues] :
        validation = [values |-> [i \in 1..n |->
                         [documentName |-> DocNames[((i - 1) % Len(DocNames)) + 1],
                          value |-> shown[i],
                          location |-> <<"L","i","n","e"," ","1">>]]]
    /\ outliers = <<>>
    /\ rpc = "rendering"

\* validation.values.map(...): one isOutlier per entry
Render ==
    /\ rpc = "rendering"
    /\ outliers' = [i \in 1..Len(validation.values) |-> IsOutlier(validation.values, i - 1)]
    /\ rpc' = "rendered"
    /\ UNCHANGED validation
    /\ UNCHANGED <<matcherVars, extractorVars, appVars>>

NextRender == Render

SpecRender == InitRender /\ [][NextRender]_vars

(***************************************************************************)
(* Vocabulary of the properties: what the input registers under a key,     *)
(* read off the documents directly.                                        *)
(***************************************************************************)
\* the facts of document i that qualify for key, in the order of the document
FactsUnderKey(docs, i, key) ==
    SelectSeq(docs[i].numericalData, LAMBDA item : key \in ItemKeySet(item))

\* the documents that index key
DocsIndexing(docs, key) == {i \in 1..Len(docs) : FactsUnderKey(docs, i, key) # <<>>}

\* the values document i registers under key
ValuesOfDoc(docs, i, key) == {f.value : f \in Range(FactsUnderKey(docs, i, key))}

\* the values registered under key by all documents
RegisteredValues(docs, key) == UNION {ValuesOfDoc(docs, i, key) : i \in 1..Len(docs)}

\* every key some fact of some document qualifies for
KeyUniverse(docs) ==
    UNION {UNION {ItemKeySet(f) : f \in Range(docs[i].numericalData)} : i \in 1..Len(docs)}

\* the (documentName, value, location) triples registered under key:
\* documents in input order, the facts of one document in their order
RECURSIVE TriplesFrom(_, _, _)
TriplesFrom(docs, i, key) ==
    IF i > Len(docs) THEN <<>>
    ELSE LET facts == FactsUnderKey(docs, i, key)
         IN  [j \in 1..Len(facts) |->
                [documentName |-> docs[i].name,
                 value |-> facts[j].value,
                 location |-> facts[j].location]]
             \o TriplesFrom(docs, i + 1, key)
RegisteredTriples(docs, key) == TriplesFrom(docs, 1, key)

\* the positions of the records of list that were emitted for key
RecordsOf(list, key) == {i \in 1..Len(list) : list[i].id = key}

\* the call has returned what the collaborator's answer was combined into
Resolved == pc = "done" /\ aiOutcome = "resolved"

\* "<year>_<metric>" keys and the "any_<metric>" key of the same metric
IsYearMetricKey(key) ==
    /\ Len(key) > 5
    /\ YearAt(key, 1)
    /\ key[5] = "_"
    /\ SubSeq(key, 6, Len(key)) # W_any
AnyKeyOf(key) == W_any \o <<"_">> \o SubSeq(key, 6, Len(key))

Key2024Revenue == <<"2","0","2","4","_","r","e","v","e","n","u","e">>
KeyAnyRevenue == <<"a","n","y","_","r","e","v","e","n","u","e">>

Doc(i, facts) == [id |-> DocIds[i], name |-> DocNames[i], numericalData |-> facts]
Triple(i, fact) == [documentName |-> DocNames[i], value |-> fact.value, location |-> fact.location]

(***************************************************************************)
(* C1: two documents whose only facts are the 2024-revenue facts 150000    *)
(* and 145000, the collaborator contributing nothing: the call returns     *)
(* exactly one record, its fieldName contains "2024" and "Revenue" and its *)
(* values contain both triples.                                            *)
(***************************************************************************)
C1_Input == documents = << Doc(1, <<FactRevenueA>>), Doc(2, <<FactRevenueB>>) >>
C1_ExactlyOneRecord ==
    (C1_Input /\ Resolved /\ aiResults = <<>>) =>
        /\ Len(result) = 1
        /\ Includes(result[1].fieldName, <<"2","0","2","4">>)
        /\ Includes(result[1].fieldName, <<"R","e","v","e","n","u","e">>)
        /\ Triple(1, FactRevenueA) \in Range(result[1].values)
        /\ Triple(2, FactRevenueB) \in Range(result[1].values)

(***************************************************************************)
(* C2: when the rule-based pass flags the same values under a              *)
(* "<year>_<metric>" key and under the "any_<metric>" key, the returned    *)
(* list holds exactly one of the two records.                              *)
(***************************************************************************)
C2_DedupAcrossKeys ==
    Resolved =>
        \A i, j \in 1..Len(inconsistencies) :
            ( /\ IsYearMetricKey(inconsistencies[i].id)
              /\ inconsistencies[j].id = AnyKeyOf(inconsistencies[i].id)
              /\ SortedValues(inconsistencies[i].values) = SortedValues(inconsistencies[j].values) )
            => Cardinality(RecordsOf(result, inconsistencies[i].id)
                           \cup RecordsOf(result, inconsistencies[j].id)) = 1

(***************************************************************************)
(* C3: with fewer than two documents the call returns the empty list,      *)
(* whatever the single document holds.                                     *)
(***************************************************************************)
C3_FewDocumentsEmpty ==
    Len(documents) < 2 =>
        /\ pc \in {"start", "done"}
        /\ outcome # "rejected"
        /\ pc = "done" => (outcome = "returned" /\ result = <<>>)
C3_Witness ==
    /\ documents = << Doc(1, <<FactRevenueA, FactRevenueB>>) >>
    /\ pc = "done"
    /\ outcome = "returned"

(***************************************************************************)
(* C4: a key under which all documents together register one distinct      *)
(* value gets no rule-based record.                                        *)
(***************************************************************************)
C4_ConsistentKeyNoRecord ==
    /\ pc = "awaitAI" =>
        \A key \in KeyUniverse(documents) :
            Cardinality(RegisteredValues(documents, key)) = 1 => RecordsOf(inconsistencies, key) = {}
    /\ Resolved =>
        \A key \in KeyUniverse(documents) :
            Cardinality(RegisteredValues(documents, key)) = 1 => RecordsOf(result, key) = {}
C4_Witness ==
    /\ documents = << Doc(1, <<FactRevenueA>>), Doc(2, <<FactRevenueA, FactRevenueUndated>>) >>
    /\ Resolved
    /\ aiResults = <<>>
    /\ Cardinality(DocsIndexing(documents, Key2024Revenue)) = 2
    /\ RecordsOf(result, Key2024Revenue) = {}
    /\ RecordsOf(result, KeyAnyRevenue) # {}

(***************************************************************************)
(* C5: every rule-based record reports a disagreement between documents:   *)
(* two of its entries come from different documents and differ in value,   *)
(* and no record is emitted when the contributing documents all report the *)
(* same set of values (the variation being inside the documents).          *)
(***************************************************************************)
DocumentsAgree(docs, key) ==
    \A i, j \in DocsIndexing(docs, key) : ValuesOfDoc(docs, i, key) = ValuesOfDoc(docs, j, key)
C5_DisagreementBetweenDocuments ==
    \A r \in 1..Len(inconsistencies) :
        LET rec == inconsistencies[r]
        IN  /\ \E a, b \in 1..Len(rec.values) :
                /\ rec.values[a].documentName # rec.values[b].documentName
                /\ rec.values[a].value # rec.values[b].value
            /\ ~DocumentsAgree(documents, rec.id)

(***************************************************************************)
(* C6: the rule-based pass emits exactly one record for a key when at      *)
(* least two documents index the key and the values under it are not all   *)
(* equal (150000 against 150001 counts), and no record otherwise; the   *)
(* records survive into the returned list when the collaborator answers.   *)
(***************************************************************************)
ExpectedRecords(docs, key) ==
    IF Cardinality(DocsIndexing(docs, key)) >= 2 /\ Cardinality(RegisteredValues(docs, key)) > 1
    THEN 1 ELSE 0
C6_OneRecordIff ==
    /\ pc = "awaitAI" =>
        /\ \A key \in KeyUniverse(documents) :
            Cardinality(RecordsOf(inconsistencies, key)) = ExpectedRecords(documents, key)
        /\ \A i \in 1..Len(inconsistencies) : inconsistencies[i].id \in KeyUniverse(documents)
    /\ Resolved =>
        \A key \in KeyUniverse(documents) :
            Cardinality(RecordsOf(result, key)) = ExpectedRecords(documents, key)
C6_Witness ==
    /\ documents = << Doc(1, <<FactRevenueA, FactRevenueB>>), Doc(2, <<FactRevenueUndated>>) >>
    /\ Resolved
    /\ Cardinality(RecordsOf(result, KeyAnyRevenue)) = 1
    /\ Cardinality(RegisteredValues(documents, Key2024Revenue)) = 2
    /\ RecordsOf(result, Key2024Revenue) = {}

(***************************************************************************)
(* C7: the values of a rule-based record are the triples registered under  *)
(* its key and nothing else, by document position and, within a document,  *)
(* by the order of its facts.                                              *)
(***************************************************************************)
C7_ValuesInDocumentOrder ==
    /\ \A i \in 1..Len(inconsistencies) :
        inconsistencies[i].values = RegisteredTriples(documents, inconsistencies[i].id)
    /\ \A i \in 1..Len(result) :
        result[i].id # NoId => result[i].values = RegisteredTriples(documents, result[i].id)
C7_Witness ==
    /\ documents = << Doc(1, <<FactRevenueB, FactRevenueA>>), Doc(2, <<FactRevenueUndated>>), Doc(3, <<FactRevenueA>>) >>
    /\ Resolved
    /\ \E i \in 1..Len(result) :
        /\ result[i].id = Key2024Revenue
        /\ result[i].values = << Triple(1, FactRevenueB), Triple(1, FactRevenueA), Triple(3, FactRevenueA) >>

(***************************************************************************)
(* C8: every rule-based record is in the returned list, whether the        *)
(* collaborator answers, answers nothing, or fails.                        *)
(***************************************************************************)
C8_RuleBasedRecordsReturned ==
    pc = "done" => \A i \in 1..Len(inconsistencies) : inconsistencies[i] \in Range(result)

(***************************************************************************)
(* C9: the call never rejects: whatever the collaborator does, the promise *)
(* resolves with a list.                                                   *)
(***************************************************************************)
C9_NeverRejects ==
    /\ outcome # "rejected"
    /\ pc = "done" => outcome = "returned"
C9_Witness ==
    /\ pc = "done"
    /\ aiOutcome \in {"rejected", "malformed"}
    /\ inconsistencies # <<>>
    /\ outcome = "returned"

(***************************************************************************)
(* Vocabulary of the extractor's properties.                               *)
(***************************************************************************)
\* the values of the candidates of a list of strings, in order
RECURSIVE CandidateValuesOf(_)
CandidateValuesOf(strings) ==
    IF strings = <<>> THEN <<>>
    ELSE LET matches == NumberMatches(Head(strings))
         IN  [i \in 1..Len(matches) |-> ValueOf(matches[i])] \o CandidateValuesOf(Tail(strings))

\* the cells of a list of tables as strings, table by table, row by row
RECURSIVE Flatten(_)
Flatten(lists) == IF lists = <<>> THEN <<>> ELSE Head(lists) \o Flatten(Tail(lists))
CellStrings(tbls) ==
    Flatten([t \in 1..Len(tbls) |->
        Flatten([r \in 1..Len(tbls[t].rows) |->
            [c \in 1..Len(tbls[t].rows[r]) |-> CellValue(tbls[t].rows[r][c])]])])

\* the value of every candidate of the input: the lines, then the cells
CandidateValues == CandidateValuesOf(SplitLines(text) \o CellStrings(tables))

IsNumber(value) == value.kind = "num"
IsGoodValue(value) == IsNumber(value) /\ value.m # 0
ValuesOf(facts) == [i \in 1..Len(facts) |-> facts[i].value]

(***************************************************************************)
(* C10: every fact returned by extractNumericalData, from the text or from *)
(* a table cell, has a value that is a number other than zero, and the     *)
(* facts are exactly the candidates whose value is such a number: a        *)
(* candidate that parses to NaN or to zero produces no fact.               *)
(***************************************************************************)
C10_NoZeroNoNaN ==
    xpc = "returned" =>
        /\ \A i \in 1..Len(numericalData) :
              /\ IsNumber(numericalData[i].value)
              /\ numericalData[i].value.m # 0
        /\ ValuesOf(numericalData) = SelectSeq(CandidateValues, IsGoodValue)

\* the report and the sheet: "$0.00", "(0)" and "USD 5" are candidates and
\* give no fact, the other five candidates give the five facts
C10_Witness ==
    /\ xpc = "returned"
    /\ text = ReportText
    /\ tables = <<BudgetTable>>
    /\ Decimal(0, 0) \in Range(CandidateValues)
    /\ NaN \in Range(CandidateValues)
    /\ ValuesOf(numericalData) =
         << Decimal(2024, 0), Decimal(0 - 1234, 0), Decimal(2500000, 0),
            Decimal(150000, 0), Decimal(7000, 0) >>

(***************************************************************************)
(* Vocabulary: tokens of a plain shape and the number their digits spell.  *)
(***************************************************************************)
\* digits and commas with a digit among them, then optionally a point and
\* one or two digits
IsPlainNumber(s) ==
    \E k \in 1..Len(s) :
        /\ \A i \in 1..k : s[i] \in Digits \cup {","}
        /\ \E i \in 1..k : s[i] \in Digits
        /\ \/ k = Len(s)
           \/ /\ Len(s) - k \in {2, 3}
              /\ s[k + 1] = "."
              /\ \A i \in (k + 2)..Len(s) : s[i] \in Digits

IsDigit(c) == c \in Digits
\* the number of digits after the point
FractionLen(s) ==
    IF \E i \in 1..Len(s) : s[i] = "."
    THEN Len(s) - (CHOOSE i \in 1..Len(s) : s[i] = ".")
    ELSE 0
\* the decimal number a plain token spells, commas ignored
PlainValue(s) == Decimal(DigitsToNat(SelectSeq(s, IsDigit)), 0 - FractionLen(s))

Negated(value) == Decimal(0 - value.m, value.e)
Scaled(value, exponent) == Decimal(value.m, value.e + exponent)
Kept(values) == SelectSeq(values, IsGoodValue)

\* a plain number enclosed in parentheses
IsParenToken(s) ==
    /\ Len(s) >= 3
    /\ s[1] = "("
    /\ s[Len(s)] = ")"
    /\ IsPlainNumber(SubSeq(s, 2, Len(s) - 1))

\* the scale words, with the power of ten the spec gives each
ScaleWords ==
    { [word |-> W_million, exponent |-> 6], [word |-> <<"m">>, exponent |-> 6],
      [word |-> W_billion, exponent |-> 9], [word |-> <<"b">>, exponent |-> 9],
      [word |-> W_thousand, exponent |-> 3], [word |-> <<"k">>, exponent |-> 3] }

\* the plain number of a token that is a plain number, optional spaces and
\* the scale word (in any letter case); <<>> when the token is not of that shape
ScaledPart(s, word) ==
    IF Len(s) > Len(word) /\ ToLowerCase(SubSeq(s, Len(s) - Len(word) + 1, Len(s))) = word
    THEN LET body == TrimEnd(SubSeq(s, 1, Len(s) - Len(word)))
         IN  IF IsPlainNumber(body) THEN body ELSE <<>>
    ELSE <<>>

\* the call was made on a text of one line and no tables
OneLineCall == xpc = "returned" /\ tables = <<>> /\ SplitLines(text) = <<text>>

(***************************************************************************)
(* C11: "$1,234.56", "(1,234)", "2.5 million" and "3K" give the values     *)
(* 1234.56, -1234, 2500000 and 3000; a plain number in parentheses gives   *)
(* the negated number its digits spell, and a plain number followed by     *)
(* million/M, billion/B, thousand/K gives that number times 10^6, 10^9,    *)
(* 10^3.                                                                   *)
(***************************************************************************)
C11_Normalization ==
    /\ (xpc = "returned" /\ text = LiteralsText /\ tables = <<>>) =>
          ValuesOf(numericalData) =
              << Decimal(123456, 0 - 2), Decimal(0 - 1234, 0), Decimal(2500000, 0), Decimal(3000, 0) >>
    /\ (OneLineCall /\ IsParenToken(text)) =>
          /\ CandidateValues = << Negated(PlainValue(SubSeq(text, 2, Len(text) - 1))) >>
          /\ ValuesOf(numericalData) = Kept(CandidateValues)
    /\ \A scale \in ScaleWords :
          (OneLineCall /\ ScaledPart(text, scale.word) # <<>>) =>
              /\ CandidateValues = << Scaled(PlainValue(ScaledPart(text, scale.word)), scale.exponent) >>
              /\ ValuesOf(numericalData) = Kept(CandidateValues)

(***************************************************************************)
(* C12: a token that is a currency marker ($, USD, EUR or GBP), optional   *)
(* spaces and a plain number gives one fact whose value is the number the  *)
(* digits spell: "USD 1,000" gives 1000 as "$1,000" does.                  *)
(***************************************************************************)
CurrencyMarkers == { <<"$">>, W_usd, W_eur, W_gbp }

\* the plain number of a token that is a marker, optional spaces and a plain
\* number; <<>> when the token is not of that shape
CurrencyPart(s, marker) ==
    IF WordAt(s, 1, marker)
    THEN LET body == TrimStart(SubSeq(s, Len(marker) + 1, Len(s)))
         IN  IF IsPlainNumber(body) THEN body ELSE <<>>
    ELSE <<>>

C12_CurrencyStripped ==
    \A marker \in CurrencyMarkers :
        (OneLineCall /\ CurrencyPart(text, marker) # <<>>) =>
            ValuesOf(numericalData) = Kept(<< PlainValue(CurrencyPart(text, marker)) >>)

(***************************************************************************)
(* C14: extractNumericalData never throws: for every text and every list   *)
(* of tables, with empty text, empty or null cells, rows longer than the   *)
(* header row, rows without a label and candidates that do not parse, the  *)
(* call returns a list.                                                    *)
(***************************************************************************)
C14_NeverThrows == xpc # "threw"

\* the sheet with a null cell, an empty label and a long row was extracted
C14_Witness ==
    /\ xpc = "returned"
    /\ tables = <<BudgetTable>>
    /\ text = <<>>
    /\ BudgetTable.rows[2][1] = NullCell
    /\ Len(BudgetTable.rows[2]) > Len(BudgetTable.headers)
    /\ ValuesOf(numericalData) = << Decimal(150000, 0), Decimal(7000, 0) >>

(***************************************************************************)
(* Vocabulary: the tag of a fact, read off its context "<tag>: ...", and   *)
(* the classification as the spec states it.                               *)
(***************************************************************************)
MetricNames == {W_revenue, W_expense, W_profit, W_total, W_asset, W_liability}

\* the part of a context before its first colon
TagOf(context) ==
    SubSeq(context, 1, (CHOOSE i \in 1..Len(context) :
                            context[i] = ":" /\ \A j \in 1..(i - 1) : context[j] # ":") - 1)

\* the year of a tag "<year>_<name>", <<>> when the tag has none
TagYear(tag) ==
    IF Len(tag) > 5 /\ tag[5] = "_" /\ \A i \in 1..4 : tag[i] \in Digits
    THEN SubSeq(tag, 1, 4)
    ELSE <<>>

\* the metric type of a tag; figure, number and table_value are no metric type
TagMetric(tag) ==
    LET name == IF TagYear(tag) # <<>> THEN SubSeq(tag, 6, Len(tag)) ELSE tag
    IN  IF name \in MetricNames THEN name ELSE W_unknown

\* the priority order of the spec: the groups of keywords, first match wins
KeywordGroups ==
    << [type |-> W_revenue, keywords |-> {W_revenue, W_sales, W_income}],
       [type |-> W_expense, keywords |-> {W_expense, W_cost}],
       [type |-> W_profit, keywords |-> {W_profit, W_net, W_earnings}],
       [type |-> W_total, keywords |-> {W_total, W_sum}],
       [type |-> W_asset, keywords |-> {W_asset}],
       [type |-> W_liability, keywords |-> {W_liability}] >>

GroupMatches(g, words) == \E w \in KeywordGroups[g].keywords : Includes(words, w)

FirstMatchType(words) ==
    IF \E g \in 1..Len(KeywordGroups) : GroupMatches(g, words)
    THEN KeywordGroups[CHOOSE g \in 1..Len(KeywordGroups) :
                           GroupMatches(g, words) /\ \A h \in 1..(g - 1) : ~GroupMatches(h, words)].type
    ELSE W_unknown

\* the text the tag of each returned fact is derived from, fact by fact:
\* the line of a text fact, `${header} ${rowLabel}` of a table fact
Repeat(x, n) == [i \in 1..n |-> x]
FactsIn(string) == Len(Kept(CandidateValuesOf(<<string>>)))
LineSources(txt) ==
    Flatten([l \in 1..Len(SplitLines(txt)) |->
        Repeat(SplitLines(txt)[l], FactsIn(SplitLines(txt)[l]))])
\* the header of column c and the label of row r (both 1-based), with the
\* stand-ins "Column c" and "Row r" for a missing or empty one
ColumnHeader(table, c) ==
    IF c <= Len(table.headers) /\ table.headers[c] \notin {NullCell, <<>>}
    THEN table.headers[c]
    ELSE <<"C","o","l","u","m","n"," ">> \o NatToChars(c)
RowLabel(table, r) ==
    IF table.rows[r] # <<>> /\ table.rows[r][1] \notin {NullCell, <<>>}
    THEN table.rows[r][1]
    ELSE <<"R","o","w"," ">> \o NatToChars(r)
CellSources(tbls) ==
    Flatten([t \in 1..Len(tbls) |->
        Flatten([r \in 1..Len(tbls[t].rows) |->
            Flatten([c \in 1..Len(tbls[t].rows[r]) |->
                Repeat(ColumnHeader(tbls[t], c) \o <<" ">> \o RowLabel(tbls[t], r),
                       IF tbls[t].rows[r][c] = NullCell THEN 0
                       ELSE FactsIn(tbls[t].rows[r][c]))])])])
TagSources == LineSources(text) \o CellSources(tables)

(***************************************************************************)
(* C15: the metric type in the tag of every returned fact, from text or    *)
(* from a table, is the type of the first group, in the order revenue/     *)
(* sales/income, expense/cost, profit/net/earnings, total/sum, asset,      *)
(* liability, that has a keyword in the lowercased source of the tag, and  *)
(* no metric type when no group has one.                                   *)
(***************************************************************************)
C15_FirstMatchWins ==
    xpc = "returned" =>
      LET sources == TagSources
      IN
        /\ Len(numericalData) = Len(sources)
        /\ \A i \in 1..Len(numericalData) :
              TagMetric(TagOf(numericalData[i].context)) = FirstMatchType(ToLowerCase(sources[i]))

(***************************************************************************)
(* C16: the metric type and the year from which the matcher builds the     *)
(* keys of a fact are the metric type and the year of the tag the          *)
(* extractor gave the fact: a fact tagged expense is not indexed under a   *)
(* profit key.                                                             *)
(***************************************************************************)
\* the facts of the documents handed to the matcher
StoredFacts == UNION { Range(documents[i].numericalData) : i \in 1..Len(documents) }

C16_KeysFromTag ==
    pc = "awaitAI" =>
        \A fact \in StoredFacts :
            /\ MetricType(ToLowerCase(fact.context)) = TagMetric(TagOf(fact.context))
            /\ YearMatch(ToLowerCase(fact.context)) = TagYear(TagOf(fact.context))
            /\ (TagMetric(TagOf(fact.context)) = W_expense =>
                    (W_any \o <<"_">> \o W_profit) \notin Range(KeysOf(fact)))

(***************************************************************************)
(* C17: a fact is indexed under exactly one structured key, "<year>_<metric*)
(* type>" when the year and the metric type are known, "<year>_any" when   *)
(* only the year is known, "any_<metric type>" when only the metric type   *)
(* is known, and under its normalised raw context (lower case, letters,    *)
(* digits and white space only, trimmed).                                  *)
(***************************************************************************)
\* the keys the claim gives a fact
ClaimedKeys(fact) ==
    LET context == ToLowerCase(fact.context)
        year == YearMatch(context)
        metricType == MetricType(context)
    IN  (IF year # <<>> /\ metricType # W_unknown THEN { year \o <<"_">> \o metricType }
         ELSE IF year # <<>> THEN { year \o <<"_">> \o W_any }
         ELSE IF metricType # W_unknown THEN { W_any \o <<"_">> \o metricType }
         ELSE {})
        \cup { Trim(SelectSeq(context, IsKeyChar)) }

\* the keys of the index built for document i
IndexKeys(docs, i) ==
    { DocumentMetrics(docs)[i].metrics[j].key : j \in 1..Len(DocumentMetrics(docs)[i].metrics) }

C17_KeysExactly ==
    pc = "awaitAI" =>
        \A i \in 1..Len(documents) :
            IndexKeys(documents, i) = UNION { ClaimedKeys(f) : f \in Range(documents[i].numericalData) }

(***************************************************************************)
(* Vocabulary: the year as the spec states it, the first four digits of    *)
(* the form 2010..2029.                                                    *)
(***************************************************************************)
IsYearAt(s, i) ==
    /\ i + 3 <= Len(s)
    /\ s[i] = "2"
    /\ s[i + 1] = "0"
    /\ s[i + 2] \in {"1", "2"}
    /\ s[i + 3] \in Digits
FirstYear(s) ==
    IF \E i \in 1..Len(s) : IsYearAt(s, i)
    THEN LET i == CHOOSE k \in 1..Len(s) : IsYearAt(s, k) /\ \A j \in 1..(k - 1) : ~IsYearAt(s, j)
         IN  SubSeq(s, i, i + 3)
    ELSE <<>>

\* the facts of the returned list that come from the tables
TableFactIndexes == (Len(LineSources(text)) + 1)..Len(numericalData)

(***************************************************************************)
(* C18: the cell "150,000" under the header "2024" in the row labelled     *)
(* "Revenue" gives a fact of value 150000 tagged revenue, year 2024; the   *)
(* tag of every table fact is decided by the lowercased header of its      *)
(* column and label of its row alone, whatever the cell and the other rows *)
(* hold.                                                                   *)
(***************************************************************************)
C18_TableTag ==
    xpc = "returned" =>
      LET sources == TagSources
      IN
        /\ (text = <<>> /\ tables = <<RevenueTable>>) =>
              /\ Len(numericalData) = 1
              /\ numericalData[1].value = Decimal(150000, 0)
              /\ TagMetric(TagOf(numericalData[1].context)) = W_revenue
              /\ TagYear(TagOf(numericalData[1].context)) = <<"2", "0", "2", "4">>
        /\ Len(numericalData) = Len(sources)
        /\ \A i \in TableFactIndexes :
              /\ TagMetric(TagOf(numericalData[i].context)) = FirstMatchType(ToLowerCase(sources[i]))
              /\ TagYear(TagOf(numericalData[i].context)) = FirstYear(ToLowerCase(sources[i]))

\* the revenue sheet was extracted, and so was the sheet whose cell
\* "Revenue 2023: 5" sits in a row labelled "Other"
C18_Witness ==
    /\ xpc = "returned"
    /\ text = ExpenditureText
    /\ tables = <<KeywordCellTable, RevenueTable>>
    /\ Len(numericalData) = 5
    /\ TagOf(numericalData[2].context) = W_revenue
    /\ TagOf(numericalData[3].context) = W_table_value
    /\ TagOf(numericalData[4].context) = W_table_value
    /\ numericalData[5].value = Decimal(150000, 0)
    /\ TagOf(numericalData[5].context) = <<"2", "0", "2", "4", "_">> \o W_revenue

(***************************************************************************)
(* Vocabulary: the values and locations the order of the spec gives, the   *)
(* lines from the first to the last, then the cells table by table, row by *)
(* row and column by column; the header row holds no cell.                 *)
(***************************************************************************)
KeptOf(string) == Kept(CandidateValuesOf(<<string>>))
Located(values, location) == [k \in 1..Len(values) |-> <<values[k], location>>]

OrderedLineFacts ==
    LET lines == SplitLines(text)
    IN  Flatten([l \in 1..Len(lines) |->
            Located(KeptOf(lines[l]), <<"L","i","n","e"," ">> \o NatToChars(l))])

OrderedCellFacts ==
    Flatten([t \in 1..Len(tables) |->
        Flatten([r \in 1..Len(tables[t].rows) |->
            Flatten([c \in 1..Len(tables[t].rows[r]) |->
                IF tables[t].rows[r][c] = NullCell THEN <<>>
                ELSE Located(KeptOf(tables[t].rows[r][c]),
                             <<"T","a","b","l","e"," ">> \o NatToChars(t) \o <<",", " ">>
                                 \o RowLabel(tables[t], r) \o <<",", " ">>
                                 \o ColumnHeader(tables[t], c))])])])

(***************************************************************************)
(* C19: in the returned list the text facts come before the table facts;   *)
(* the text facts are in line order and, within a line, from left to       *)
(* right, each located "Line n" with n the 1-based number of its line; the *)
(* table facts are in table, row, column order; the header row of a table  *)
(* gives no fact.                                                          *)
(***************************************************************************)
C19_Order ==
    xpc = "returned" =>
        [i \in 1..Len(numericalData) |-> <<numericalData[i].value, numericalData[i].location>>]
            = OrderedLineFacts \o OrderedCellFacts

\* three lines and two tables, the second with the header "2024": the
\* facts of lines 1, 2 and 4, then those of the first table
C19_Witness ==
    /\ xpc = "returned"
    /\ text = ReportText
    /\ tables = <<BudgetTable, TokenTable(<<"0">>)>>
    /\ Len(numericalData) = 5
    /\ numericalData[1].location = <<"L","i","n","e"," ","1">>
    /\ numericalData[2].location = <<"L","i","n","e"," ","2">>
    /\ numericalData[3].location = <<"L","i","n","e"," ","4">>
    /\ numericalData[4].value = Decimal(150000, 0)
    /\ numericalData[5].value = Decimal(7000, 0)

(***************************************************************************)
(* Vocabulary: the renderings of a key.                                    *)
(***************************************************************************)
\* every underscore replaced by a space, then the first letter of every
\* word in upper case
TitleCased(key) ==
    LET spaced == [i \in 1..Len(key) |-> IF key[i] = "_" THEN " " ELSE key[i]]
    IN  [i \in 1..Len(spaced) |->
            IF i = 1 \/ spaced[i - 1] \in Whitespace THEN CharToUpper(spaced[i]) ELSE spaced[i]]

\* the first character in upper case, the rest as it is
FirstUpper(key) == [i \in 1..Len(key) |-> IF i = 1 THEN CharToUpper(key[i]) ELSE key[i]]

IsStructuredKey(key) == \E i \in 1..Len(key) : key[i] = "_"

\* the rule-based records exist: the matcher has run up to its await
RuleBasedDone == pc = "awaitAI"

(***************************************************************************)
(* C20, as claimed: the fieldName of every rule-based record is its key    *)
(* with every underscore replaced by a space and every word title-cased,   *)
(* for the structured keys and for the raw-context keys alike.             *)
(***************************************************************************)
C20_TitleCasedAlways ==
    RuleBasedDone =>
        \A i \in 1..Len(inconsistencies) :
            inconsistencies[i].fieldName = TitleCased(inconsistencies[i].id)

(***************************************************************************)
(* C20, amended: the fieldName of a rule-based record is its key with the  *)
(* underscore replaced by a space and every word title-cased when the key  *)
(* is a structured key, and its key with only the first character in upper *)
(* case when the key is a raw-context key.                                 *)
(***************************************************************************)
C20_TitleCasedStructured ==
    RuleBasedDone =>
        \A i \in 1..Len(inconsistencies) :
            inconsistencies[i].fieldName =
                IF IsStructuredKey(inconsistencies[i].id)
                THEN TitleCased(inconsistencies[i].id)
                ELSE FirstUpper(inconsistencies[i].id)

\* two files with the line "Revenue 5 and 7": a record for the key
\* any_revenue and a record for the raw key "revenue revenue 5 and 7"
C20_Witness ==
    /\ RuleBasedDone
    /\ Len(documents) = 2
    /\ \E i, j \in 1..Len(inconsistencies) :
        /\ inconsistencies[i].id = KeyAnyRevenue
        /\ inconsistencies[i].fieldName = <<"A","n","y"," ","R","e","v","e","n","u","e">>
        /\ inconsistencies[j].id =
             <<"r","e","v","e","n","u","e"," ","r","e","v","e","n","u","e"," ","5"," ","a","n","d"," ","7">>
        /\ inconsistencies[j].fieldName =
             <<"R","e","v","e","n","u","e"," ","r","e","v","e","n","u","e"," ","5"," ","a","n","d"," ","7">>

(***************************************************************************)
(* Vocabulary: the facts of a returned list by origin.                     *)
(***************************************************************************)
IsTextFact(fact) == SubSeq(fact.location, 1, 5) = <<"L","i","n","e"," ">>
IsTableFact(fact) == SubSeq(fact.location, 1, 6) = <<"T","a","b","l","e"," ">>

\* the call was on a one-line text and on a table whose data cell holds
\* the same characters
SameTokenCall == xpc = "returned" /\ text # <<>> /\ tables = <<TokenTable(text)>>

C23_IdenticalDocumentsAgree ==
    (/\ RuleBasedDone
     /\ Len(documents) = 2
     /\ documents[1].numericalData = documents[2].numericalData)
        => inconsistencies = <<>>

(***************************************************************************)
(* Vocabulary: the number a text begins with.                              *)
(***************************************************************************)
\* the digits before the first space, as a number
LeadingNumber(s) ==
    LET i == CHOOSE k \in 1..Len(s) : s[k] = " " /\ \A j \in 1..(k - 1) : s[j] # " "
    IN  PlainValue(SubSeq(s, 1, i - 1))

(***************************************************************************)
(* C30: a scale multiplier is applied only for a scale word of the         *)
(* grammar: a number followed by an ordinary word that merely begins with  *)
(* m, b or k ("5 months", "3 books", "10 km") is emitted with multiplier   *)
(* 1, that is with the values 5, 3 and 10.                                 *)
(***************************************************************************)
C30_OrdinaryWordsUnscaled ==
    (xpc = "returned" /\ text \in OrdinaryWordTexts /\ tables = <<>>)
        => ValuesOf(numericalData) = << LeadingNumber(text) >>

(***************************************************************************)
(* Vocabulary: the files and the runs of the App component.                *)
(***************************************************************************)
StatusOf(files, id) == (CHOOSE f \in Range(files) : f.id = id).status
IsListed(files, id) == \E f \in Range(files) : f.id = id

\* processFile has just settled inside handleStartProcessing
FileSettled == hpc = "awaiting" /\ fpc = "ended"

\* handleStartProcessing returns in this step
StartProcessingReturns == hpc = "awaiting" /\ hpc' = "idle"

(***************************************************************************)
(* C24: handleStartProcessing processes all pending files sequentially:    *)
(* when no abort is requested and no step fails, the invocation has run    *)
(* processFile on every uploaded file whose status was neither 'completed' *)
(* nor 'processing' when it returns, so all of them are 'completed'.       *)
(***************************************************************************)
C24_AllPendingProcessed ==
    [][ (/\ StartProcessingReturns
         /\ ~run.aborted
         /\ StatusOf(uploadedFiles, run.fileUpload.id) # "error")
            => \A i \in 1..Len(closure.filesToProcess) :
                   StatusOf(uploadedFiles', closure.filesToProcess[i].id) = "completed" ]_vars

(***************************************************************************)
(* C25: if the user requests abort at any moment while processFile is      *)
(* running for a file, that file ends with status 'cancelled' and never    *)
(* 'completed', no analysis result is published for it, and the            *)
(* application returns to the 'upload' state.                              *)
(***************************************************************************)
C25_AbortCancels ==
    (FileSettled /\ run.aborted)
        => /\ StatusOf(uploadedFiles, run.fileUpload.id) = "cancelled"
           /\ analysisResult.documentId # run.fileUpload.id
           /\ appState = "upload"

(***************************************************************************)
(* C27: the application never gets stuck in the 'processing' view: after   *)
(* processFile ends for any reason (success, abort, failure of a step) the *)
(* application is in the 'upload' or the 'results' state, where the user   *)
(* has a button to continue or start over.                                 *)
(***************************************************************************)
C27_NeverStuck == fpc = "ended" => appState \in {"upload", "results"}

(***************************************************************************)
(* C28: whenever no file is being processed, processedDocuments holds      *)
(* exactly one entry per uploaded file whose status is 'completed': no     *)
(* entry for a cancelled, failed or removed file, and no two entries with  *)
(* the same id.                                                            *)
(***************************************************************************)
C28_OneEntryPerCompletedFile ==
    Quiescent =>
        /\ \A i, j \in 1..Len(processedDocuments) :
               processedDocuments[i].id = processedDocuments[j].id => i = j
        /\ \A i \in 1..Len(processedDocuments) :
               /\ IsListed(uploadedFiles, processedDocuments[i].id)
               /\ StatusOf(uploadedFiles, processedDocuments[i].id) = "completed"
        /\ \A f \in Range(uploadedFiles) :
               f.status = "completed" => \E i \in 1..Len(processedDocuments) : processedDocuments[i].id = f.id

(***************************************************************************)
(* Vocabulary: the records of a list without their numbering.              *)
(***************************************************************************)
\* what a record says: its field name, its values and its verdict
ContentOf(records) ==
    [i \in 1..Len(records) |->
        <<records[i].fieldName, records[i].values, records[i].isConsistent>>]

\* a pass of performCrossDocumentAnalysis completes in this step and the
\* application holds a result
PassCompletes == apc = "awaiting" /\ apc' = "idle" /\ outcome = "returned" /\ analysisResult' # NoResult

(***************************************************************************)
(* C21: a fresh cross-document analysis discards all prior inconsistency   *)
(* records: when performCrossDocumentAnalysis completes,                   *)
(* analysisResult.crossDocumentValidations holds exactly the records the   *)
(* validation of that pass returned and none from an earlier pass, however *)
(* many passes came before.                                                *)
(***************************************************************************)
C21_LatestPassOnly ==
    [][ PassCompletes =>
            ContentOf(analysisResult'.crossDocumentValidations) = ContentOf(result) ]_vars

\* a second pass over the same result has completed (the total was raised
\* twice) and the list holds the records of one pass only
C21_Witness ==
    /\ apc = "idle"
    /\ appState = "results"
    /\ analysisResult # NoResult
    /\ analysisResult.summary.crossDocumentErrors > 0
    /\ Len(analysisResult.crossDocumentValidations) = analysisResult.summary.crossDocumentErrors
    /\ analysisResult.summary.totalIssues
         > analysisResult.summary.proofreadingErrors + analysisResult.summary.numericalErrors
           + analysisResult.summary.crossDocumentErrors

(***************************************************************************)
(* C26: after any sequence of processFile and performCrossDocumentAnalysis *)
(* runs, whenever analysisResult is set its summary satisfies totalIssues  *)
(* = proofreadingErrors + numericalErrors + crossDocumentErrors, and       *)
(* crossDocumentErrors is the number of crossDocumentValidations with      *)
(* isConsistent false.                                                     *)
(***************************************************************************)
C26_SummaryAddsUp ==
    analysisResult # NoResult =>
        /\ analysisResult.summary.totalIssues
             = analysisResult.summary.proofreadingErrors + analysisResult.summary.numericalErrors
               + analysisResult.summary.crossDocumentErrors
        /\ analysisResult.summary.crossDocumentErrors
             = Cardinality({i \in 1..Len(analysisResult.crossDocumentValidations) :
                               ~analysisResult.crossDocumentValidations[i].isConsistent})

(***************************************************************************)
(* Vocabulary: the most frequent value of a record.                        *)
(***************************************************************************)
ShownValues(vals) == {vals[i].value : i \in 1..Len(vals)}
TimesShown(vals, v) == Cardinality({i \in 1..Len(vals) : vals[i].value = v})

\* the values no other value of the record occurs more often than
MostFrequent(vals) ==
    {v \in ShownValues(vals) : \A w \in ShownValues(vals) : TimesShown(vals, w) <= TimesShown(vals, v)}

(***************************************************************************)
(* C29: when an inconsistency record is rendered, a value entry is marked  *)
(* as outlier ("Potential Error") if and only if its value differs from    *)
(* the most frequent value of the record and that value occurs more than   *)
(* once in the record's values (for 100, 100, 95 the entry 95 is marked).  *)
(* Stated for the records that have one most frequent value.               *)
(***************************************************************************)
C29_OutlierMarked ==
    (rpc = "rendered" /\ Cardinality(MostFrequent(validation.values)) = 1)
        => LET mostFrequent == CHOOSE v \in MostFrequent(validation.values) : TRUE
           IN  \A i \in 1..Len(validation.values) :
                   outliers[i] <=> /\ validation.values[i].value # mostFrequent
                                   /\ TimesShown(validation.values, mostFrequent) > 1

====
